---------------------------- MODULE Spec2Model ----------------------------
(***************************************************************************)
(* A model of four components of SimCenterBackendApplications:             *)
(*   - createSAM/AutoSDA/seismic_design.py  (seismic design orchestrator)  *)
(*   - performUQ/UCSD_UQ/calibration_utilities.py                          *)
(*   - performUQ/UQpy/UQpyEngine.py                                        *)
(*   - systemPerformance/REWET/REWET/Output/Result_Time.py                 *)
(*                                                                         *)
(* The orchestrator is a sequential program; it is modelled with a program *)
(* counter pc and one action per phase or loop iteration.  Its             *)
(* collaborators (Building, ElasticAnalysis, Column, Beam, Connection) are *)
(* not part of the sources: what they return is drawn from small sets.     *)
(***************************************************************************)
EXTENDS Integers, Sequences, FiniteSets, TLC

VARIABLES
    \* ---- seismic_design ------------------------------------------------
    pc,                 \* position in seismic_design
    building_1,         \* the optimal design
    building_2,         \* design after beam constructability
    building_3,         \* design after column constructability
    last_member,        \* snapshot of building_1.member_size
    iteration,          \* drift-optimization iteration counter
    elastic_demand,     \* the three ElasticOutput objects
    column_set, beam_set, connection_set,
    construction_column_set, construction_beam_set, construction_connection_set,
    not_feasible,       \* the four not_feasible_* lists
    cursor,             \* position in the current revision "for" loop
    stderr_writes,      \* number of writes to sys.stderr
    files,              \* what the persistence step wrote
    hist,               \* analyses of the drift phase: sizes and drift read
    nAnalysis,          \* ElasticAnalysis objects constructed so far
    analysis_log,       \* per building: the calls made since its member sizes last changed
    bad,                \* failing verdicts the collaborators returned so far
    scwb,               \* the last SCWB target-story selection
    \* ---- CovarianceMatrixPreparer.createCovarianceMatrix ---------------
    cov,
    \* ---- DataTransformer.computeScaleAndShiftFactors -------------------
    xf,
    \* ---- CalDataPreparer.createTempCalDataFile -------------------------
    cal,
    \* ---- LogLikelihoodHandler.evaluate_log_likelihood ------------------
    ll,
    \* ---- CovarianceMatrixPreparer.getDefaultErrorVariances -------------
    dv,
    \* ---- make_distributions --------------------------------------------
    dist,
    \* ---- UQpyEngine.main -----------------------------------------------
    uq,
    \* ---- Result_Time ---------------------------------------------------
    rt

seismicVars == <<pc, building_1, building_2, building_3, last_member, iteration,
                 elastic_demand, column_set, beam_set, connection_set,
                 construction_column_set, construction_beam_set,
                 construction_connection_set, not_feasible, cursor,
                 stderr_writes, files, hist, nAnalysis, analysis_log, bad, scwb>>

laterVars == <<cal, ll, dv, dist, uq, rt>>

vars == <<seismicVars, cov, xf, laterVars>>

None == <<>>

(***************************************************************************)
(* Bounds of the model.                                                    *)
(***************************************************************************)
NumStory == 2        \* building_1.geometry['number of story']
NumXBay == 2         \* building_1.geometry['number of X bay']
MaxAnalyses == 18    \* a run is followed until it has constructed this many analyses
MaxIter == 2         \* cap on drift-optimization iterations
MaxBad == 2          \* cap on failing verdicts handed out in one run

Stories == 0 .. (NumStory - 1)
ColumnNos == 0 .. NumXBay
Bays == 0 .. (NumXBay - 1)
Categories == {"exterior column", "interior column", "beam"}

Max(S) == CHOOSE m \in S : \A x \in S : x <= m

Range(f) == {f[x] : x \in DOMAIN f}

(***************************************************************************)
(* Building and the elastic analysis (collaborators).                      *)
(***************************************************************************)
UniformSizes(u) == [c \in Categories |-> [s \in Stories |-> u]]

\* Story drifts are kept in units of 1e-4.
DriftValues == {31, 41, 42}

\* The first story peaks, the others drift little; only np.max of the
\* drifts is ever tested.
DriftChoices ==
    {[s \in Stories |-> IF s = 0 THEN v ELSE 20] : v \in DriftValues}

\* ElasticAnalysis + read_story_drift: the engine is deterministic, so sizes
\* already analysed give the drift already read; new sizes give any drift.
ReadStoryDrift(sizes) ==
    LET seen == {i \in 1 .. Len(hist) : hist[i].sizes = sizes}
    IN  IF seen = {} THEN DriftChoices ELSE {hist[i].drift : i \in seen}

\* Building.optimize_member_for_drift: shrinks one member group by one
\* section; when every group is at the smallest section nothing changes.
OptimizeMemberForDrift(ms) ==
    LET shrinkable == {<<c, s>> \in Categories \X Stories : ms[c][s] > 0}
    IN  IF shrinkable = {} THEN {ms}
        ELSE {[ms EXCEPT ![p[1]][p[2]] = @ - 1] : p \in shrinkable}

\* Building.upscale_column / upscale_beam: the next larger section.  Sections
\* are numbered from 0, small to large.
Upscale(ms, category, story) == [ms EXCEPT ![category][story] = @ + 1]

\* np.max(story drift) * 5.5 * RBS_STIFFNESS_FACTOR <= 0.025 / rho, with the
\* drift in 1e-4, RBS_STIFFNESS_FACTOR = 11/10 and rho = rho10/10.
DriftWithinLimit(b) ==
    Max(Range(b.story_drift)) * 55 * 11 * 4 * b.rho10 <= 1000000

NewBuilding(ms, r) ==
    [member_size |-> ms, construction_size |-> None, story_drift |-> None,
     rho10 |-> r]

(***************************************************************************)
(* Column, Beam, Connection (collaborators).  A member object keeps its    *)
(* section, the ElasticOutput its demands were read from and its flag.     *)
(***************************************************************************)
ColumnType(column_no) ==
    IF column_no = 0 \/ column_no = NumXBay THEN "exterior column"
    ELSE "interior column"

Column(size, demand, flag) == [size |-> size, demand |-> demand, ok |-> flag]

Beam(size, demand, flag) == [size |-> size, demand |-> demand, ok |-> flag]

\* section['Zx'] of the section database: grows with the section number.
Zx(size) == 10 * 2 ^ size

\* An ElasticOutput: the design whose full analysis it holds.
ElasticOutput(which, ms) == [building |-> which, sizes |-> ms]

Criteria == {"geometry limits", "shear strength", "flexural strength", "SCWB"}

\* A reference to a member held by a Connection: where it was taken from
\* and the object found there at that time.
Ref(story, no, set) == [story |-> story, no |-> no, obj |-> set[story][no]]

Connection(joint, left_beam, right_beam, top_column, bottom_column, failing) ==
    [joint |-> joint, left_beam |-> left_beam, right_beam |-> right_beam,
     top_column |-> top_column, bottom_column |-> bottom_column,
     is_feasible |-> [k \in Criteria |-> k \notin failing]]

\* Connection.check_flag
ConnectionFlag(c) == \A k \in Criteria : c.is_feasible[k]

RECURSIVE UpTo(_, _)
UpTo(S, n) ==
    IF n <= 0 THEN {{}}
    ELSE LET P == UpTo(S, n - 1) IN P \cup {p \cup {x} : p \in P, x \in S}

\* What the collaborators may declare failing when members are built:
\* column and beam flags, and the criteria of connections.
ColumnVerdicts(stories) == {<<"column", s, c>> : s \in stories, c \in ColumnNos}

BeamVerdicts(stories) == {<<"beam", s, b>> : s \in stories, b \in Bays}

ConnectionVerdicts(stories) ==
    {<<"connection", s, c, k>> : s \in stories, c \in ColumnNos, k \in Criteria}

Verdicts(universe) == UpTo(universe, MaxBad - bad)

\* Positions in the order the nested "for story / for no" loops visit them.
RECURSIVE InOrder(_, _, _)
InOrder(story, no, width) ==
    IF story >= NumStory THEN <<>>
    ELSE IF no > width THEN InOrder(story + 1, 0, width)
    ELSE <<<<story, no>>>> \o InOrder(story, no + 1, width)

Recorded(B, width) == SelectSeq(InOrder(0, 0, width), LAMBDA p : p \in B)

\* The Column objects of one story, as every (re)build loop makes them.
StoryColumns(ms, demand, story, V) ==
    [c \in ColumnNos |->
        Column(ms[ColumnType(c)][story], demand, <<"column", story, c>> \notin V)]

\* The Beam objects of one story.
StoryBeams(ms, demand, story, V) ==
    [b \in Bays |-> Beam(ms["beam"][story], demand, <<"beam", story, b>> \notin V)]

\* The Connection built for (story, connection_no): the if/elif chain that
\* every construction site repeats.
\* A chain that forgets the roof: every joint gets a column above it.
BuildConnectionNoRoof(story, connection_no, beams, columns, failing) ==
    LET exterior == connection_no \in {0, NumXBay}
        left == IF connection_no = 0 THEN 0 ELSE connection_no - 1
    IN  Connection(IF exterior THEN "typical exterior" ELSE "typical interior",
                   Ref(story, left, beams),
                   IF exterior THEN None ELSE Ref(story, connection_no, beams),
                   Ref(story, connection_no, columns),
                   Ref(story, connection_no, columns), failing)

BuildConnection(story, connection_no, beams, columns, failing) ==
    IF story # NumStory - 1
    THEN IF connection_no = 0
         THEN Connection("typical exterior",
                         Ref(story, connection_no, beams), None,
                         Ref(story + 1, connection_no, columns),
                         Ref(story, connection_no, columns), failing)
         ELSE IF connection_no = NumXBay
         THEN Connection("typical exterior",
                         Ref(story, connection_no - 1, beams), None,
                         Ref(story + 1, connection_no, columns),
                         Ref(story, connection_no, columns), failing)
         ELSE Connection("typical interior",
                         Ref(story, connection_no - 1, beams),
                         Ref(story, connection_no, beams),
                         Ref(story + 1, connection_no, columns),
                         Ref(story, connection_no, columns), failing)
    ELSE IF connection_no = 0
         THEN Connection("top exterior",
                         Ref(story, connection_no, beams), None, None,
                         Ref(story, connection_no, columns), failing)
         ELSE IF connection_no = NumXBay
         THEN Connection("top exterior",
                         Ref(story, connection_no - 1, beams), None, None,
                         Ref(story, connection_no, columns), failing)
         ELSE Connection("top interior",
                         Ref(story, connection_no, beams),
                         Ref(story, connection_no, beams), None,
                         Ref(story, connection_no, columns), failing)

StoryConnections(story, beams, columns, V) ==
    [c \in ColumnNos |->
        BuildConnection(story, c, beams, columns,
                        {k \in Criteria : <<"connection", story, c, k>> \in V})]

\* The story whose column the SCWB loop upscales; UPPER_LOWER_COLUMN_Zx = 1/2.
TargetStory(target_story_index, target_connection_no, columns) ==
    IF target_story_index = NumStory - 1 THEN target_story_index
    ELSE IF Zx(columns[target_story_index + 1][target_connection_no].size) * 2
            < Zx(columns[target_story_index][target_connection_no].size)
    THEN target_story_index + 1
    ELSE target_story_index

\* range(target_story - 1 >= 0, target_story + 1): the start is a boolean.
RebuildStories(target_story) ==
    (IF target_story - 1 >= 0 THEN 1 ELSE 0) .. target_story

\* The "for" over a not_feasible list with a "while not flag" body: entries
\* whose flag passes are stepped over.
RECURSIVE SkipFeasible(_, _, _)
SkipFeasible(list, k, set) ==
    IF k > Len(list) THEN k
    ELSE IF ~set[list[k][1]][list[k][2]].ok THEN k
    ELSE SkipFeasible(list, k + 1, set)

\* The same for connections, whose body is three "while" loops in a row.
RECURSIVE NextRevision(_, _, _, _)
NextRevision(list, k, stage, set) ==
    IF k > Len(list) THEN [k |-> k, stage |-> "end"]
    ELSE LET f == set[list[k][1]][list[k][2]].is_feasible
         IN  IF stage = "geometry limits"
             THEN IF ~f["geometry limits"] THEN [k |-> k, stage |-> stage]
                  ELSE NextRevision(list, k, "strength", set)
             ELSE IF stage = "strength"
             THEN IF ~f["shear strength"] \/ ~f["flexural strength"]
                  THEN [k |-> k, stage |-> stage]
                  ELSE NextRevision(list, k, "SCWB", set)
             ELSE IF ~f["SCWB"] THEN [k |-> k, stage |-> stage]
                  ELSE NextRevision(list, k + 1, "geometry limits", set)

(***************************************************************************)
(* The calls seismic_design makes on a building around one analysis.       *)
(***************************************************************************)
\* lines 82-85: the eigenvalue analysis, the period read from it, the forces
PeriodAndForces ==
    <<"ElasticAnalysis for_period_only", "read_modal_period", "compute_seismic_force">>

\* lines 88-93: the full analysis and the drift read from it
FullAnalysis == PeriodAndForces \o <<"ElasticAnalysis", "read_story_drift">>

\* lines 124-133: the same with the drift-only analysis
DriftOnlyAnalysis == PeriodAndForces \o <<"ElasticAnalysis for_drift_only", "read_story_drift">>

\* The full analysis as if the drift were read before the analysis is run.
AnalysisWithDemandReadFirst ==
    PeriodAndForces \o <<"read_story_drift", "ElasticAnalysis", "ElasticOutput">>

\* lines 222-232: the full analysis followed by the load combination
AnalysisWithDemand == FullAnalysis \o <<"ElasticOutput">>

(***************************************************************************)
(* seismic_design: period, forces, first drift and the drift loop.         *)
(***************************************************************************)
otherVars == <<cov, xf, laterVars>>

afterDriftVars == <<building_2, building_3, elastic_demand, column_set, beam_set,
                    connection_set, construction_column_set,
                    construction_beam_set, construction_connection_set,
                    not_feasible, cursor, files, bad, scwb>>

\* lines 82-101
InitialAnalysis ==
    /\ pc = "start"
    /\ \E d \in ReadStoryDrift(building_1.member_size) :
          /\ building_1' = [building_1 EXCEPT !.story_drift = d]
          /\ hist' = Append(hist, [sizes |-> building_1.member_size, drift |-> d])
    /\ nAnalysis' = nAnalysis + 2
    /\ analysis_log' = [analysis_log EXCEPT ![1] = FullAnalysis]
    /\ iteration' = 0
    /\ last_member' = building_1.member_size
    /\ pc' = "drift_loop"
    /\ UNCHANGED <<afterDriftVars, stderr_writes, otherVars>>

\* The snapshot taken before the optimization (line 120) ...
LastMemberMutantAfter(before, after) == after

LastMemberSnapshot(before, after) == before

\* lines 102-135: one iteration of the drift loop
DriftIteration ==
    /\ pc = "drift_loop"
    /\ DriftWithinLimit(building_1)
    /\ iteration < MaxIter
    /\ \E ms \in OptimizeMemberForDrift(building_1.member_size) :
          \E d \in ReadStoryDrift(ms) :
             /\ last_member' = LastMemberSnapshot(building_1.member_size, ms)
             /\ building_1' = [building_1 EXCEPT !.member_size = ms,
                                                 !.story_drift = d]
             /\ hist' = Append(hist, [sizes |-> ms, drift |-> d])
    /\ nAnalysis' = nAnalysis + 2
    /\ analysis_log' = [analysis_log EXCEPT ![1] = DriftOnlyAnalysis]
    /\ iteration' = iteration + 1
    /\ UNCHANGED <<pc, afterDriftVars, stderr_writes, otherVars>>

\* sys.exit(99) is taken when the loop body never ran (line 140)
ExitMutantAlways(n) == TRUE

InitialSizeTooWeak(n) == n = 0

\* lines 102, 137-143: the loop condition fails
DriftLoopExit ==
    /\ pc = "drift_loop"
    /\ ~DriftWithinLimit(building_1)
    /\ building_1' = [building_1 EXCEPT !.member_size = last_member]
    /\ analysis_log' = [analysis_log EXCEPT ![1] = <<>>]
    /\ IF InitialSizeTooWeak(iteration)
       THEN /\ stderr_writes' = stderr_writes + 2
            /\ pc' = "exit99"
       ELSE /\ stderr_writes' = stderr_writes
            /\ pc' = "column_check"
    /\ UNCHANGED <<last_member, iteration, hist, nAnalysis, afterDriftVars,
                   otherVars>>

(***************************************************************************)
(* seismic_design: strength checks and revisions of the optimal design.    *)
(***************************************************************************)
Positions(V, kind) == {<<v[2], v[3]>> : v \in {w \in V : w[1] = kind}}

AllStoryColumns(ms, demand, V) ==
    [s \in Stories |-> StoryColumns(ms, demand, s, V)]

AllStoryBeams(ms, demand, V) == [s \in Stories |-> StoryBeams(ms, demand, s, V)]

AllStoryConnections(beams, columns, V) ==
    [s \in Stories |-> StoryConnections(s, beams, columns, V)]

\* lines 149-205
CheckColumnStrength ==
    /\ pc = "column_check"
    /\ \E d \in ReadStoryDrift(building_1.member_size) :
          building_1' = [building_1 EXCEPT !.story_drift = d]
    /\ nAnalysis' = nAnalysis + 2
    /\ analysis_log' = [analysis_log EXCEPT ![1] = @ \o AnalysisWithDemand]
    /\ LET demand == ElasticOutput(1, building_1.member_size)
       IN  /\ elastic_demand' = [elastic_demand EXCEPT ![1] = demand]
           /\ \E V \in Verdicts(ColumnVerdicts(Stories)) :
                 /\ column_set' = AllStoryColumns(building_1.member_size, demand, V)
                 /\ not_feasible' =
                       [not_feasible EXCEPT
                           !.column = Recorded(Positions(V, "column"), NumXBay)]
                 /\ bad' = bad + Cardinality(V)
                 /\ stderr_writes' = stderr_writes + Cardinality(V)
    /\ cursor' = [k |-> 1, stage |-> "flag"]
    /\ pc' = "column_revise"
    /\ UNCHANGED <<building_2, building_3, last_member, iteration, beam_set,
                   connection_set, construction_column_set, construction_beam_set,
                   construction_connection_set, files, hist, scwb, otherVars>>

\* lines 210-272: one iteration of "while not column.check_flag()"
ReviseColumn ==
    /\ pc = "column_revise"
    /\ cursor.k <= Len(not_feasible.column)
    /\ LET target_story_index == not_feasible.column[cursor.k][1]
           target_column_no == not_feasible.column[cursor.k][2]
           type_column == ColumnType(target_column_no)
           ms == Upscale(building_1.member_size, type_column, target_story_index)
           demand == ElasticOutput(1, ms)
       IN  /\ ~column_set[target_story_index][target_column_no].ok
           /\ \E d \in ReadStoryDrift(ms) :
                 building_1' = [building_1 EXCEPT !.member_size = ms,
                                                  !.story_drift = d]
           /\ elastic_demand' = [elastic_demand EXCEPT ![1] = demand]
           /\ \E V \in Verdicts(ColumnVerdicts({target_story_index})) :
                 LET cs == [column_set EXCEPT ![target_story_index] =
                               StoryColumns(ms, demand, target_story_index, V)]
                 IN  /\ column_set' = cs
                     /\ cursor' = [cursor EXCEPT
                           !.k = SkipFeasible(not_feasible.column, cursor.k, cs)]
                     /\ bad' = bad + Cardinality(V)
    /\ nAnalysis' = nAnalysis + 2
    /\ analysis_log' = [analysis_log EXCEPT ![1] = AnalysisWithDemand]
    /\ UNCHANGED <<pc, building_2, building_3, last_member, iteration, beam_set,
                   connection_set, construction_column_set, construction_beam_set,
                   construction_connection_set, not_feasible, stderr_writes, files,
                   hist, scwb, otherVars>>

\* lines 278-305
CheckBeamStrength ==
    /\ pc = "column_revise"
    /\ cursor.k > Len(not_feasible.column)
    /\ \E V \in Verdicts(BeamVerdicts(Stories)) :
          /\ beam_set' = AllStoryBeams(building_1.member_size, elastic_demand[1], V)
          /\ not_feasible' =
                [not_feasible EXCEPT
                    !.beam = Recorded(Positions(V, "beam"), NumXBay - 1)]
          /\ bad' = bad + Cardinality(V)
          /\ stderr_writes' = stderr_writes + Cardinality(V)
    /\ cursor' = [k |-> 1, stage |-> "flag"]
    /\ pc' = "beam_revise"
    /\ UNCHANGED <<building_1, building_2, building_3, last_member, iteration,
                   elastic_demand, column_set, connection_set,
                   construction_column_set, construction_beam_set,
                   construction_connection_set, files, hist, nAnalysis, analysis_log, scwb,
                   otherVars>>

\* lines 310-347: one iteration of "while not beam.check_flag()"
ReviseBeam ==
    /\ pc = "beam_revise"
    /\ cursor.k <= Len(not_feasible.beam)
    /\ LET target_story_index == not_feasible.beam[cursor.k][1]
           bay_no == not_feasible.beam[cursor.k][2]
           ms == Upscale(building_1.member_size, "beam", target_story_index)
           demand == ElasticOutput(1, ms)
       IN  /\ ~beam_set[target_story_index][bay_no].ok
           /\ \E d \in ReadStoryDrift(ms) :
                 building_1' = [building_1 EXCEPT !.member_size = ms,
                                                  !.story_drift = d]
           /\ elastic_demand' = [elastic_demand EXCEPT ![1] = demand]
           /\ \E V \in Verdicts(BeamVerdicts({target_story_index})) :
                 LET bs == [beam_set EXCEPT ![target_story_index] =
                               StoryBeams(ms, demand, target_story_index, V)]
                 IN  /\ beam_set' = bs
                     /\ cursor' = [cursor EXCEPT
                           !.k = SkipFeasible(not_feasible.beam, cursor.k, bs)]
                     /\ bad' = bad + Cardinality(V)
    /\ nAnalysis' = nAnalysis + 2
    /\ analysis_log' = [analysis_log EXCEPT ![1] = AnalysisWithDemand]
    /\ UNCHANGED <<pc, building_2, building_3, last_member, iteration, column_set,
                   connection_set, construction_column_set, construction_beam_set,
                   construction_connection_set, not_feasible, stderr_writes, files,
                   hist, scwb, otherVars>>

\* The joints whose check_flag fails, as recorded by a connection check.
Infeasible(set) ==
    {p \in Stories \X ColumnNos : ~ConnectionFlag(set[p[1]][p[2]])}

\* lines 354-455
CheckConnection ==
    /\ pc = "beam_revise"
    /\ cursor.k > Len(not_feasible.beam)
    /\ \E V \in Verdicts(ConnectionVerdicts(Stories)) :
          LET cs == AllStoryConnections(beam_set, column_set, V)
              list == Recorded(Infeasible(cs), NumXBay)
          IN  /\ connection_set' = cs
              /\ not_feasible' = [not_feasible EXCEPT !.connection = list]
              /\ stderr_writes' = stderr_writes + Len(list)
              /\ cursor' = NextRevision(list, 1, "geometry limits", cs)
              /\ bad' = bad + Cardinality(V)
    /\ pc' = "connection_revise"
    /\ UNCHANGED <<building_1, building_2, building_3, last_member, iteration,
                   elastic_demand, column_set, beam_set, construction_column_set,
                   construction_beam_set, construction_connection_set, files,
                   hist, nAnalysis, analysis_log, scwb, otherVars>>

\* The geometry limits loop as if its condition were tested once only.
GeometryLimitsTestedOnce ==
    /\ pc = "connection_revise"
    /\ cursor.k <= Len(not_feasible.connection)
    /\ cursor.stage = "geometry limits"
    /\ cursor' = [cursor EXCEPT !.stage = "strength"]
    /\ UNCHANGED <<pc, building_1, building_2, building_3, last_member, iteration,
                   elastic_demand, column_set, beam_set, connection_set,
                   construction_column_set, construction_beam_set,
                   construction_connection_set, not_feasible, stderr_writes,
                   files, hist, nAnalysis, analysis_log, bad, scwb, otherVars>>

\* lines 462-467: "while not is_feasible['geometry limits']: pass"
GeometryLimitsLoop ==
    /\ pc = "connection_revise"
    /\ cursor.k <= Len(not_feasible.connection)
    /\ cursor.stage = "geometry limits"
    /\ UNCHANGED vars

\* lines 470-608: one iteration of the shear / flexural strength loop
ReviseConnectionStrength ==
    /\ pc = "connection_revise"
    /\ cursor.k <= Len(not_feasible.connection)
    /\ cursor.stage = "strength"
    /\ LET target_story_index == not_feasible.connection[cursor.k][1]
           ms == Upscale(building_1.member_size, "beam", target_story_index)
           demand == ElasticOutput(1, ms)
       IN  /\ \E d \in ReadStoryDrift(ms) :
                 building_1' = [building_1 EXCEPT !.member_size = ms,
                                                  !.story_drift = d]
           /\ elastic_demand' = [elastic_demand EXCEPT ![1] = demand]
           /\ \E V \in Verdicts(BeamVerdicts({target_story_index})
                                \cup ConnectionVerdicts({target_story_index})) :
                 LET bs == [beam_set EXCEPT ![target_story_index] =
                               StoryBeams(ms, demand, target_story_index, V)]
                     cs == [connection_set EXCEPT ![target_story_index] =
                               StoryConnections(target_story_index, bs,
                                                column_set, V)]
                 IN  /\ beam_set' = bs
                     /\ connection_set' = cs
                     /\ cursor' = NextRevision(not_feasible.connection, cursor.k,
                                               "strength", cs)
                     /\ bad' = bad + Cardinality(V)
    /\ nAnalysis' = nAnalysis + 2
    /\ analysis_log' = [analysis_log EXCEPT ![1] = AnalysisWithDemand]
    /\ UNCHANGED <<pc, building_2, building_3, last_member, iteration, column_set,
                   construction_column_set, construction_beam_set,
                   construction_connection_set, not_feasible, stderr_writes, files,
                   hist, scwb, otherVars>>

\* What an SCWB iteration leaves in scwb: the joint, the story it chose, and
\* the Zx of the columns of the design under revision at that moment.
Selection(design, target_story_index, target_connection_no, target_story, own) ==
    [design |-> design, target_story_index |-> target_story_index,
     target_connection_no |-> target_connection_no,
     target_story |-> target_story,
     zx_target |-> Zx(own[target_story_index][target_connection_no].size),
     zx_above |-> IF target_story_index = NumStory - 1 THEN 0
                  ELSE Zx(own[target_story_index + 1][target_connection_no].size)]

\* lines 610-796: one iteration of the SCWB loop
ReviseConnectionSCWB ==
    /\ pc = "connection_revise"
    /\ cursor.k <= Len(not_feasible.connection)
    /\ cursor.stage = "SCWB"
    /\ LET target_story_index == not_feasible.connection[cursor.k][1]
           target_connection_no == not_feasible.connection[cursor.k][2]
           target_story == TargetStory(target_story_index, target_connection_no,
                                       column_set)
           type_column == ColumnType(target_connection_no)
           ms == Upscale(building_1.member_size, type_column, target_story)
           demand == ElasticOutput(1, ms)
       IN  /\ scwb' = Selection(1, target_story_index, target_connection_no,
                                target_story, column_set)
           /\ \E d \in ReadStoryDrift(ms) :
                 building_1' = [building_1 EXCEPT !.member_size = ms,
                                                  !.story_drift = d]
           /\ elastic_demand' = [elastic_demand EXCEPT ![1] = demand]
           /\ \E V \in Verdicts(ColumnVerdicts({target_story})
                                \cup ConnectionVerdicts(RebuildStories(target_story))) :
                 LET cols == [column_set EXCEPT ![target_story] =
                                 StoryColumns(ms, demand, target_story, V)]
                     cs == [s \in Stories |->
                              IF s \in RebuildStories(target_story)
                              THEN StoryConnections(s, beam_set, cols, V)
                              ELSE connection_set[s]]
                 IN  /\ column_set' = cols
                     /\ connection_set' = cs
                     /\ cursor' = NextRevision(not_feasible.connection, cursor.k,
                                               "SCWB", cs)
                     /\ bad' = bad + Cardinality(V)
    /\ nAnalysis' = nAnalysis + 2
    /\ analysis_log' = [analysis_log EXCEPT ![1] = AnalysisWithDemand]
    /\ UNCHANGED <<pc, building_2, building_3, last_member, iteration, beam_set,
                   construction_column_set, construction_beam_set,
                   construction_connection_set, not_feasible, stderr_writes, files,
                   hist, otherVars>>

(***************************************************************************)
(* seismic_design: the two constructability passes and persistence.        *)
(***************************************************************************)
\* Building.constructability_beam: every story gets the largest beam.
ConstructabilityBeamSizes(ms) ==
    [ms EXCEPT !["beam"] =
        [s \in Stories |-> Max({ms["beam"][t] : t \in Stories})]]

\* Building.constructability_column: no column is smaller than one above it.
ConstructabilityColumnSizes(ms) ==
    [c \in Categories |->
        IF c = "beam" THEN ms[c]
        ELSE [s \in Stories |-> Max({ms[c][t] : t \in s .. (NumStory - 1)})]]

\* lines 804-1002: building_2 and the three construction sets
ConstructabilityBeam ==
    /\ pc = "connection_revise"
    /\ cursor.k > Len(not_feasible.connection)
    /\ LET ms == ConstructabilityBeamSizes(building_1.member_size)
           demand == ElasticOutput(2, ms)
       IN  /\ building_1' = [building_1 EXCEPT !.construction_size = ms]
           /\ \E d \in ReadStoryDrift(ms) :
                 building_2' = [building_1 EXCEPT !.construction_size = ms,
                                                  !.member_size = ms,
                                                  !.story_drift = d]
           /\ elastic_demand' = [elastic_demand EXCEPT ![2] = demand]
           /\ \E V \in Verdicts(BeamVerdicts(Stories) \cup ColumnVerdicts(Stories)
                                \cup ConnectionVerdicts(Stories)) :
                 LET beams == AllStoryBeams(ms, demand, V)
                     cols == AllStoryColumns(ms, demand, V)
                     cs == AllStoryConnections(beams, cols, V)
                     list == Recorded(Infeasible(cs), NumXBay)
                 IN  /\ construction_beam_set' = beams
                     /\ construction_column_set' = cols
                     /\ construction_connection_set' = cs
                     /\ not_feasible' =
                           [not_feasible EXCEPT !.construction_connection = list]
                     /\ stderr_writes' = stderr_writes + Len(list)
                           + Cardinality(Positions(V, "beam"))
                           + Cardinality(Positions(V, "column"))
                     /\ cursor' = NextRevision(list, 1, "geometry limits", cs)
                     /\ bad' = bad + Cardinality(V)
    /\ nAnalysis' = nAnalysis + 2
    /\ analysis_log' = [analysis_log EXCEPT ![2] = AnalysisWithDemand]
    /\ pc' = "construction_revise"
    /\ UNCHANGED <<building_3, last_member, iteration, column_set, beam_set,
                   connection_set, files, hist, scwb, otherVars>>

\* lines 1010-1015: "while not is_feasible['geometry limits']: pass"
ConstructionGeometryLimitsLoop ==
    /\ pc = "construction_revise"
    /\ cursor.k <= Len(not_feasible.construction_connection)
    /\ cursor.stage = "geometry limits"
    /\ UNCHANGED vars

\* lines 1018-1202: one iteration of the shear / flexural strength loop
ReviseConstructionStrength ==
    /\ pc = "construction_revise"
    /\ cursor.k <= Len(not_feasible.construction_connection)
    /\ cursor.stage = "strength"
    /\ LET target_story_index == not_feasible.construction_connection[cursor.k][1]
           ms == Upscale(building_2.member_size, "beam", target_story_index)
           demand == ElasticOutput(2, ms)
       IN  /\ \E d \in ReadStoryDrift(ms) :
                 building_2' = [building_2 EXCEPT !.member_size = ms,
                                                  !.story_drift = d]
           /\ elastic_demand' = [elastic_demand EXCEPT ![2] = demand]
           /\ \E V \in Verdicts(BeamVerdicts({target_story_index})
                                \cup ConnectionVerdicts({target_story_index})) :
                 LET bs == [construction_beam_set EXCEPT ![target_story_index] =
                               \* line 1056 reads building_1.member_size
                               StoryBeams(building_1.member_size, demand,
                                          target_story_index, V)]
                     cs == [construction_connection_set EXCEPT
                               ![target_story_index] =
                               StoryConnections(target_story_index, bs,
                                                construction_column_set, V)]
                 IN  /\ construction_beam_set' = bs
                     /\ construction_connection_set' = cs
                     /\ cursor' = NextRevision(not_feasible.construction_connection,
                                               cursor.k, "strength", cs)
                     /\ bad' = bad + Cardinality(V)
    /\ nAnalysis' = nAnalysis + 2
    /\ analysis_log' = [analysis_log EXCEPT ![2] = AnalysisWithDemand]
    /\ UNCHANGED <<pc, building_1, building_3, last_member, iteration, column_set,
                   beam_set, connection_set, construction_column_set, not_feasible,
                   stderr_writes, files, hist, scwb, otherVars>>

\* lines 1204-1431: one iteration of the SCWB loop of the construction design
\* (a run is followed into this loop while nAnalysis < MaxAnalyses)
ReviseConstructionSCWB ==
    /\ pc = "construction_revise"
    /\ cursor.k <= Len(not_feasible.construction_connection)
    /\ cursor.stage = "SCWB"
    /\ LET target_story_index == not_feasible.construction_connection[cursor.k][1]
           target_connection_no == not_feasible.construction_connection[cursor.k][2]
           \* lines 1217-1221 read column_set
           target_story == TargetStory(target_story_index, target_connection_no,
                                       column_set)
           type_column == ColumnType(target_connection_no)
           ms == Upscale(building_2.member_size, type_column, target_story)
           demand == ElasticOutput(2, ms)
           roof == NumStory - 1
       IN  /\ nAnalysis < MaxAnalyses
           /\ scwb' = Selection(2, target_story_index, target_connection_no,
                                target_story, construction_column_set)
           /\ \E d \in ReadStoryDrift(ms) :
                 building_2' = [building_2 EXCEPT !.member_size = ms,
                                                  !.story_drift = d]
           /\ elastic_demand' = [elastic_demand EXCEPT ![2] = demand]
           /\ \E V \in Verdicts(ColumnVerdicts({target_story})
                                \cup ConnectionVerdicts(RebuildStories(target_story))) :
                 LET cols == [construction_column_set EXCEPT ![target_story] =
                                 StoryColumns(ms, demand, target_story, V)]
                     built == [s \in RebuildStories(target_story) |->
                                 StoryConnections(s, construction_beam_set, cols, V)]
                     \* line 1379 stores the left roof joint in connection_set
                     cs == [s \in Stories |-> [c \in ColumnNos |->
                              IF s \in RebuildStories(target_story)
                                 /\ ~(s = roof /\ c = 0)
                              THEN built[s][c]
                              ELSE construction_connection_set[s][c]]]
                 IN  /\ construction_column_set' = cols
                     /\ construction_connection_set' = cs
                     /\ connection_set' =
                           IF roof \in RebuildStories(target_story)
                           THEN [connection_set EXCEPT ![roof][0] = built[roof][0]]
                           ELSE connection_set
                     /\ cursor' = NextRevision(not_feasible.construction_connection,
                                               cursor.k, "SCWB", cs)
                     /\ bad' = bad + Cardinality(V)
    /\ nAnalysis' = nAnalysis + 2
    /\ analysis_log' = [analysis_log EXCEPT ![2] = AnalysisWithDemand]
    /\ UNCHANGED <<pc, building_1, building_3, last_member, iteration, column_set,
                   beam_set, construction_beam_set, not_feasible, stderr_writes,
                   files, hist, otherVars>>

\* lines 1446-1542: building_3 and the construction columns built for it
ConstructabilityColumn ==
    /\ pc = "construction_revise"
    /\ cursor.k > Len(not_feasible.construction_connection)
    /\ LET ms == ConstructabilityColumnSizes(building_2.member_size)
           demand == ElasticOutput(3, ms)
       IN  /\ building_2' = [building_2 EXCEPT !.construction_size = ms]
           /\ \E d \in ReadStoryDrift(ms) :
                 building_3' = [building_2 EXCEPT !.construction_size = ms,
                                                  !.member_size = ms,
                                                  !.story_drift = d]
           /\ elastic_demand' = [elastic_demand EXCEPT ![3] = demand]
           /\ \E V \in Verdicts(ColumnVerdicts(Stories)) :
                 /\ construction_column_set' = AllStoryColumns(ms, demand, V)
                 /\ stderr_writes' = stderr_writes + 2 * Cardinality(V)
                 /\ bad' = bad + Cardinality(V)
    /\ nAnalysis' = nAnalysis + 2
    /\ analysis_log' = [analysis_log EXCEPT ![3] = AnalysisWithDemand]
    /\ pc' = "store"
    /\ UNCHANGED <<building_1, last_member, iteration, column_set, beam_set,
                   connection_set, construction_beam_set,
                   construction_connection_set, not_feasible, cursor, files, hist,
                   scwb, otherVars>>

\* The member a Connection holds on one of its sides, None where it has none.
Held(ref) == IF ref = None THEN None ELSE ref.obj

\* Column / Beam .demand_capacity_ratio[force]: fixed when the member is
\* built, by its section and the demands it was built from.
DemandCapacityRatio(member, force) ==
    [force |-> force, size |-> member.size, demand |-> member.demand]

\* Connection.doubler_plate_thickness: fixed when the connection is built,
\* by the column below the joint and the beams framing into it.
DoublerPlateThickness(connection) ==
    [bottom_column |-> Held(connection.bottom_column),
     left_beam |-> Held(connection.left_beam),
     right_beam |-> Held(connection.right_beam)]

\* Connection.moment['Mpc'] / Connection.moment['Mpb'] (lines 1686-1693)
MomentRatio(connection) ==
    [Mpc |-> <<Held(connection.top_column), Held(connection.bottom_column)>>,
     Mpb |-> <<Held(connection.left_beam), Held(connection.right_beam)>>]

\* lines 1641-1654: one 'connection <bay>' column per joint
DoublerPlateFrame(connections) ==
    [row \in Stories |->
        [col \in ColumnNos |-> DoublerPlateThickness(connections[row][col])]]

\* lines 1664-1669 and 1676-1681: the label of a column of the ratio frame
JointLabel(col) ==
    IF col = 0 \/ col = NumXBay THEN "exterior joint"
    ELSE IF col = NumXBay + 1 THEN "design ratio"
    ELSE "interior joint"

\* lines 1674-1698: cells are assigned by label, so the columns that share
\* a label all hold what the last of them was given.
ColumnBeamRatioFrame(connections) ==
    [row \in Stories |->
        [col \in 0 .. NumXBay + 1 |->
            LET last == Max({c \in 0 .. NumXBay + 1 : JointLabel(c) = JointLabel(col)})
            IN  IF row = NumStory - 1 THEN [cell |-> "NA"]
                ELSE IF last = NumXBay + 1 THEN [cell |-> "1 / BEAM_TO_COLUMN_RATIO"]
                ELSE [cell |-> MomentRatio(connections[row][last])]]]

\* lines 1706-1774: one frame per force, one cell per member
DCRatioFrame(members, force) ==
    [story \in Stories |->
        [no \in DOMAIN members[story] |->
            DemandCapacityRatio(members[story][no], force)]]

\* lines 1547-1777
StoreDesignResults ==
    /\ pc = "store"
    /\ files' = [optimal_building |-> building_1,
                 construction_building |-> building_3,
                 optimal_beam_set |-> beam_set,
                 optimal_column_set |-> column_set,
                 optimal_connection_set |-> connection_set,
                 construction_beam_set |-> construction_beam_set,
                 construction_column_set |-> construction_column_set,
                 construction_connection_set |-> construction_connection_set,
                 OptimalMemberSize |-> building_1.member_size,
                 ConstructionSize |-> building_3.construction_size,
                 OptimalStoryDrift |-> building_1.story_drift,
                 ConstructionDrift |-> building_3.story_drift,
                 OptimalDoublerPlate |-> DoublerPlateFrame(connection_set),
                 ConstructionDoublerPlate |->
                     DoublerPlateFrame(construction_connection_set),
                 OptimalColumnBeamRatio |-> ColumnBeamRatioFrame(connection_set),
                 ConstructionColumnBeamRatio |->
                     ColumnBeamRatioFrame(construction_connection_set),
                 OptimalColumnAxialDCRatio |-> DCRatioFrame(column_set, "axial"),
                 ConstructionColumnAxialDCRatio |->
                     DCRatioFrame(construction_column_set, "axial"),
                 OptimalColumnShearDCRatio |-> DCRatioFrame(column_set, "shear"),
                 ConstructionColumnShearDCRatio |->
                     DCRatioFrame(construction_column_set, "shear"),
                 OptimalColumnFlexuralDCRatio |-> DCRatioFrame(column_set, "flexural"),
                 ConstructionColumnFlexuralDCRatio |->
                     DCRatioFrame(construction_column_set, "flexural"),
                 OptimalBeamShearDCRatio |-> DCRatioFrame(beam_set, "shear"),
                 ConstructionBeamShearDCRatio |->
                     DCRatioFrame(construction_beam_set, "shear"),
                 OptimalBeamFlexuralDCRatio |-> DCRatioFrame(beam_set, "flexural"),
                 ConstructionBeamFlexuralDCRatio |->
                     DCRatioFrame(construction_beam_set, "flexural")]
    /\ pc' = "done"
    /\ UNCHANGED <<building_1, building_2, building_3, last_member, iteration,
                   elastic_demand, column_set, beam_set, connection_set,
                   construction_column_set, construction_beam_set,
                   construction_connection_set, not_feasible, cursor,
                   stderr_writes, hist, nAnalysis, analysis_log, bad, scwb, otherVars>>

(***************************************************************************)
(* Initial states.                                                         *)
(***************************************************************************)
SeismicIdle ==
    /\ pc = "idle"
    /\ building_1 = None /\ building_2 = None /\ building_3 = None
    /\ last_member = None /\ iteration = 0
    /\ elastic_demand = [i \in 1 .. 3 |-> None]
    /\ column_set = None /\ beam_set = None /\ connection_set = None
    /\ construction_column_set = None /\ construction_beam_set = None
    /\ construction_connection_set = None
    /\ not_feasible = [column |-> <<>>, beam |-> <<>>, connection |-> <<>>,
                       construction_connection |-> <<>>]
    /\ cursor = [k |-> 0, stage |-> "flag"]
    /\ stderr_writes = 0 /\ files = None /\ hist = <<>>
    /\ nAnalysis = 0 /\ bad = 0 /\ scwb = None
    /\ analysis_log = [b \in 1 .. 3 |-> <<>>]

LaterIdle ==
    /\ cal = None /\ ll = None /\ dv = None
    /\ dist = None /\ uq = None /\ rt = None

OthersIdle == cov = None /\ xf = None /\ LaterIdle

\* The state after Building(...) at line 47: any starting sections, rho 1.0 or 1.3.
InitDrift ==
    /\ pc = "start"
    /\ \E u \in 0 .. 1, r \in {10, 13} : building_1 = NewBuilding(UniformSizes(u), r)
    /\ building_2 = None /\ building_3 = None
    /\ last_member = None /\ iteration = 0
    /\ elastic_demand = [i \in 1 .. 3 |-> None]
    /\ column_set = None /\ beam_set = None /\ connection_set = None
    /\ construction_column_set = None /\ construction_beam_set = None
    /\ construction_connection_set = None
    /\ not_feasible = [column |-> <<>>, beam |-> <<>>, connection |-> <<>>,
                       construction_connection |-> <<>>]
    /\ cursor = [k |-> 0, stage |-> "flag"]
    /\ stderr_writes = 0 /\ files = None /\ hist = <<>>
    /\ nAnalysis = 0 /\ bad = 0 /\ scwb = None
    /\ analysis_log = [b \in 1 .. 3 |-> <<>>]
    /\ OthersIdle

\* The designs the drift loop hands on when it stops after one or after
\* two iterations: the sizes restored, the drift of the rejected sizes
\* still in building_1.
Shrunk(ms, category, story) == [ms EXCEPT ![category][story] = @ - 1]

DriftPeak(v) == [s \in Stories |-> IF s = 0 THEN v ELSE 20]

AfterDrift ==
    LET s0 == UniformSizes(1)
        s1 == Shrunk(s0, "interior column", NumStory - 1)
        s2 == Shrunk(s1, "beam", 0)
    IN  {[n |-> 1, sizes |-> s0,
          hist |-> <<[sizes |-> s0, drift |-> DriftPeak(41)],
                     [sizes |-> s1, drift |-> DriftPeak(42)]>>],
         [n |-> 2, sizes |-> s1,
          hist |-> <<[sizes |-> s0, drift |-> DriftPeak(31)],
                     [sizes |-> s1, drift |-> DriftPeak(41)],
                     [sizes |-> s2, drift |-> DriftPeak(42)]>>]}

Init ==
    /\ pc = "column_check"
    /\ \E a \in AfterDrift :
          /\ building_1 = [NewBuilding(a.sizes, 10) EXCEPT
                              !.story_drift = a.hist[Len(a.hist)].drift]
          /\ last_member = a.sizes
          /\ iteration = a.n
          /\ hist = a.hist
          /\ nAnalysis = 2 * Len(a.hist)
          /\ analysis_log = [b \in 1 .. 3 |-> <<>>]
    /\ building_2 = None /\ building_3 = None
    /\ elastic_demand = [i \in 1 .. 3 |-> None]
    /\ column_set = None /\ beam_set = None /\ connection_set = None
    /\ construction_column_set = None /\ construction_beam_set = None
    /\ construction_connection_set = None
    /\ not_feasible = [column |-> <<>>, beam |-> <<>>, connection |-> <<>>,
                       construction_connection |-> <<>>]
    /\ cursor = [k |-> 0, stage |-> "flag"]
    /\ stderr_writes = 0 /\ files = None
    /\ bad = 0 /\ scwb = None
    /\ OthersIdle

Next ==
    \/ CheckColumnStrength
    \/ ReviseColumn
    \/ CheckBeamStrength
    \/ ReviseBeam
    \/ CheckConnection
    \/ GeometryLimitsLoop
    \/ ReviseConnectionStrength
    \/ ReviseConnectionSCWB
    \/ ConstructabilityBeam
    \/ ConstructionGeometryLimitsLoop
    \/ ReviseConstructionStrength
    \/ ReviseConstructionSCWB
    \/ ConstructabilityColumn
    \/ StoreDesignResults

Spec == Init /\ [][Next]_vars

NextDrift ==
    \/ InitialAnalysis
    \/ DriftIteration
    \/ DriftLoopExit
    \/ CheckColumnStrength

SpecDrift == InitDrift /\ [][NextDrift]_vars

(***************************************************************************)
(* CovarianceMatrixPreparer.createCovarianceMatrix.  A covariance file is  *)
(* the sequence of its lines; a line is blank (only whitespace) or holds   *)
(* some number of words once commas are replaced by spaces, none for a     *)
(* line of commas only.  An array read from a file is kept as its shape.   *)
(***************************************************************************)
MaxExperiments == 2     \* numExperiments
MaxEdps == 2            \* len(edpNamesList)
MaxEdpLength == 2       \* entries of edpLengthsList
MaxLines == 2           \* lines of a covariance file
MaxWords == 2           \* words on a line

SeqsUpTo(S, n) == UNION {[1 .. k -> S] : k \in 0 .. n}

EdpLengthsLists == SeqsUpTo(1 .. MaxEdpLength, MaxEdps) \ {<<>>}

CovarianceLines ==
    {[blank |-> TRUE, words |-> 0]}
    \cup {[blank |-> FALSE, words |-> n] : n \in 0 .. MaxWords}

\* os.path.isfile(covarianceFile) and the file's lines
CovarianceFiles ==
    {[exists |-> FALSE, lines |-> <<>>]}
    \cup {[exists |-> TRUE, lines |-> l] : l \in SeqsUpTo(CovarianceLines, MaxLines)}

\* lines 132-165: the scan that counts numRows and numCols
RECURSIVE ScanLines(_, _, _, _)
ScanLines(lines, linenum, numRows, numCols) ==
    IF linenum > Len(lines)
    THEN [numRows |-> numRows, numCols |-> numCols, raised |-> FALSE]
    ELSE IF lines[linenum].blank
    THEN ScanLines(lines, linenum + 1, numRows, numCols)
    ELSE IF numRows = 0
    THEN ScanLines(lines, linenum + 1, numRows + 1, lines[linenum].words)
    ELSE IF numCols # lines[linenum].words
    THEN [numRows |-> numRows, numCols |-> numCols, raised |-> TRUE]
    ELSE ScanLines(lines, linenum + 1, numRows + 1, numCols)

\* lines 172-221: the dimension checks
CovarianceType(numRows, numCols, edpLength) ==
    IF numRows = 1
    THEN IF numCols = 1 THEN "scalar"
         ELSE IF numCols = edpLength THEN "diagonal"
         ELSE "DataProcessingError"
    ELSE IF numRows = edpLength
    THEN IF numCols = 1 THEN "diagonal"
         ELSE IF numCols = edpLength THEN "matrix"
         ELSE "DataProcessingError"
    ELSE "DataProcessingError"

\* A loop that stops after the first experiment.
FirstExperimentOnly(numExperiments) == 1 .. 1

\* range(1, numExperiments + 1)
ExperimentNumbers(numExperiments) == 1 .. numExperiments

CovRaise(error, file, scan) ==
    [cov EXCEPT !.pc = "raised", !.raised = error,
                !.last = [file |-> file, scan |-> scan,
                          edpLength |-> cov.edpLengthsList[cov.i + 1]]]

CovAdvance(c) ==
    IF c.i + 1 < Len(c.edpLengthsList) THEN [c EXCEPT !.i = c.i + 1]
    ELSE IF c.expNum + 1 \in ExperimentNumbers(c.numExperiments)
    THEN [c EXCEPT !.expNum = c.expNum + 1, !.i = 0]
    ELSE [c EXCEPT !.pc = "store"]

\* lines 106-232: the loop body for one experiment and one response quantity
CovarianceStep ==
    /\ cov # None
    /\ cov.pc = "loop"
    /\ \E file \in CovarianceFiles :
          LET scan == ScanLines(file.lines, 1, 0, 0)
              edpLength == cov.edpLengthsList[cov.i + 1]
              type == CovarianceType(scan.numRows, scan.numCols, edpLength)
              last == [file |-> file, scan |-> scan, edpLength |-> edpLength]
              order == Append(cov.order, <<cov.expNum, cov.i>>)
              read == Append(cov.covarianceMatrixList,
                             [from |-> "file", shape |-> <<scan.numRows, scan.numCols>>])
          IN  cov' =
                IF file.exists
                THEN IF cov.runType = "runningLocal"
                     \* shutil.copyfile(src, dst) with dst the same path as src
                     THEN CovRaise("SameFileError", file, scan)
                     ELSE IF scan.raised
                     THEN CovRaise("DataProcessingError", file, scan)
                     ELSE IF type = "DataProcessingError"
                     THEN [CovRaise("DataProcessingError", file, scan)
                              EXCEPT !.covarianceMatrixList = read]
                     ELSE CovAdvance([cov EXCEPT
                              !.covarianceMatrixList = read,
                              !.covarianceTypeList = Append(@, type),
                              !.order = order, !.last = last])
                ELSE CovAdvance([cov EXCEPT
                        !.covarianceMatrixList =
                            Append(@, [from |-> "defaultErrorVariances",
                                       shape |-> <<>>]),
                        !.covarianceTypeList = Append(@, "scalar"),
                        !.order = order, !.last = last])
    /\ UNCHANGED <<seismicVars, xf, laterVars>>

\* lines 233-243
CovarianceReturn ==
    /\ cov # None
    /\ cov.pc = "store"
    /\ cov' = [cov EXCEPT
                  !.pc = "returned",
                  !.self = [covarianceMatrixList |-> cov.covarianceMatrixList,
                            covarianceTypeList |-> cov.covarianceTypeList],
                  !.returned = <<cov.covarianceMatrixList>>]
    /\ UNCHANGED <<seismicVars, xf, laterVars>>

InitCov ==
    /\ SeismicIdle
    /\ xf = None
    /\ LaterIdle
    /\ \E runType \in {"runningLocal", "runningRemote"},
          numExperiments \in 1 .. MaxExperiments,
          edpLengthsList \in EdpLengthsLists :
          cov = [pc |-> "loop", runType |-> runType,
                 numExperiments |-> numExperiments,
                 edpLengthsList |-> edpLengthsList,
                 expNum |-> 1, i |-> 0,
                 covarianceMatrixList |-> <<>>, covarianceTypeList |-> <<>>,
                 order |-> <<>>, raised |-> "", last |-> None,
                 self |-> None, returned |-> <<>>]

NextCov == CovarianceStep \/ CovarianceReturn

SpecCov == InitCov /\ [][NextCov]_vars

(***************************************************************************)
(* DataTransformer.computeScaleAndShiftFactors, transformStrategy          *)
(* 'absMaxScaling', and transformData.  calibrationData is a sequence of   *)
(* rows, one per experiment; each response quantity owns edpLengthsList[j] *)
(* columns.  A transformed value (x + shift) / scale is kept as the        *)
(* fraction [n, d].                                                        *)
(***************************************************************************)
DataValues == {-2, 0, 1}

Abs(x) == IF x < 0 THEN -x ELSE x

RECURSIVE Sum(_)
Sum(q) == IF q = <<>> THEN 0 ELSE Head(q) + Sum(Tail(q))

\* calibrationData[:, currentPosition : currentPosition + length]
DataSlice(calibrationData, currentPosition, length) ==
    {calibrationData[r][c] :
        r \in DOMAIN calibrationData,
        c \in (currentPosition + 1) .. (currentPosition + length)}

\* np.absolute(np.max(calibrationDataSlice)), line 405
AbsMax(slice) == Abs(Max(slice))

\* lines 387-411: the loop, locShift set before it and kept across quantities
RECURSIVE AbsMaxFactors(_, _, _, _, _, _, _)
AbsMaxFactors(calibrationData, edpLengthsList, j, currentPosition, locShift, scaleFactors, shiftFactors) ==
    IF j > Len(edpLengthsList)
    THEN [scaleFactors |-> scaleFactors, shiftFactors |-> shiftFactors]
    ELSE LET absMax == AbsMax(DataSlice(calibrationData, currentPosition,
                                        edpLengthsList[j]))
             shift == IF absMax = 0 THEN 1 ELSE locShift
             scale == IF absMax = 0 THEN 1 ELSE absMax
         IN  AbsMaxFactors(calibrationData, edpLengthsList, j + 1,
                           currentPosition + edpLengthsList[j], shift,
                           Append(scaleFactors, scale),
                           Append(shiftFactors, shift))

\* The quantity that owns column c, from the cumulative segment lengths.
RECURSIVE SegmentOf(_, _, _)
SegmentOf(lengths, c, j) ==
    IF c <= lengths[j] THEN j ELSE SegmentOf(lengths, c - lengths[j], j + 1)

\* lines 341-359: (slice + shift) / scale over each column segment
TransformData(data_to_transform, lengths, scales, shifts) ==
    [r \in DOMAIN data_to_transform |->
        [c \in DOMAIN data_to_transform[r] |->
            LET j == SegmentOf(lengths, c, 1)
            IN  [n |-> data_to_transform[r][c] + shifts[j], d |-> scales[j]]]]

\* lines 379-435 with transformStrategy = 'absMaxScaling'
ComputeScaleAndShiftFactors ==
    /\ xf # None
    /\ xf.pc = "call"
    /\ LET out == AbsMaxFactors(xf.calibrationData, xf.edpLengthsList, 1, 0, 0,
                                <<>>, <<>>)
       IN  xf' = [xf EXCEPT !.pc = "returned",
                            !.scaleFactors = out.scaleFactors,
                            !.shiftFactors = out.shiftFactors]
    /\ UNCHANGED <<seismicVars, cov, laterVars>>

InitScale ==
    /\ SeismicIdle
    /\ cov = None
    /\ LaterIdle
    /\ \E edpLengthsList \in EdpLengthsLists, numExperiments \in 1 .. MaxExperiments :
          \E calibrationData \in
                [1 .. numExperiments -> [1 .. Sum(edpLengthsList) -> DataValues]] :
             xf = [pc |-> "call", calibrationData |-> calibrationData,
                   edpLengthsList |-> edpLengthsList,
                   scaleFactors |-> <<>>, shiftFactors |-> <<>>]

\* lines 437-443: DataTransformer.transformData writes (x + shift) / scale
\* into self.calibrationData, the array the caller passed, and returns it
DataTransformerTransformData ==
    /\ xf # None
    /\ xf.pc = "returned"
    /\ xf' = [xf EXCEPT !.pc = "transformed",
                        !.calibrationData =
                            TransformData(xf.calibrationData, xf.edpLengthsList,
                                          xf.scaleFactors, xf.shiftFactors)]
    /\ UNCHANGED <<seismicVars, cov, laterVars>>

NextScale == ComputeScaleAndShiftFactors \/ DataTransformerTransformData

SpecScale == InitScale /\ [][NextScale]_vars

(***************************************************************************)
(* CalDataPreparer.createTempCalDataFile.  A line of the calibration file  *)
(* is blank (only whitespace) or holds some number of words once commas    *)
(* are replaced by spaces; a line of commas only is not blank and holds no *)
(* word.  The temporary file is the sequence of its lines, the headings    *)
(* first.                                                                  *)
(***************************************************************************)
MaxCalLines == 3        \* lines of the calibration data file

CalLines ==
    {[blank |-> TRUE, words |-> 0]}
    \cup {[blank |-> FALSE, words |-> n] : n \in 0 .. MaxEdps * MaxEdpLength}

\* A reader that takes every line for data.
NoLineIsBlank(line) == FALSE

\* len(line.strip()) == 0, line 295
IsBlankLine(line) == line.blank

\* lines 293-319: the loop over the lines of the file
RECURSIVE ScanCalData(_, _, _, _, _)
ScanCalData(file, lineLength, linenum, numExperiments, written) ==
    IF linenum > Len(file)
    THEN [numExperiments |-> numExperiments, written |-> written,
          raised |-> None]
    ELSE IF IsBlankLine(file[linenum])
    THEN ScanCalData(file, lineLength, linenum + 1, numExperiments, written)
    ELSE IF file[linenum].words = lineLength
    THEN ScanCalData(file, lineLength, linenum + 1, numExperiments + 1,
                     Append(written, [number |-> numExperiments + 1,
                                      interface |-> 1, line |-> linenum]))
    ELSE [numExperiments |-> numExperiments, written |-> written,
          raised |-> [error |-> "DataProcessingError", linenum |-> linenum,
                      entries |-> file[linenum].words,
                      expected |-> lineLength]]

\* lines 272-281: 'Exp_num interface ' and one name per column, the name of
\* the quantity alone when it has one component, name_<comp> otherwise.  A
\* quantity is named by its position in edpNamesList.
CreateHeadings(edpLengthsList) ==
    [Exp_num |-> "Exp_num", interface |-> "interface",
     names |-> [c \in 1 .. Sum(edpLengthsList) |->
                  LET j == SegmentOf(edpLengthsList, c, 1)
                  IN  IF edpLengthsList[j] = 1 THEN <<j>>
                      ELSE <<j, c - Sum(SubSeq(edpLengthsList, 1, j - 1))>>]]

\* lines 283-320.  f1 is closed at line 320 only: when line 315 raises, the
\* lines written to f1 are still in its buffer, and the file on disk is
\* empty until the file object is finalised, which writes them out.
CreateTempCalDataFile ==
    /\ cal # None
    /\ cal.pc = "call"
    /\ LET out == ScanCalData(cal.file, Sum(cal.edpLengthsList), 1, 0,
                              <<CreateHeadings(cal.edpLengthsList)>>)
       IN  \E finalised \in BOOLEAN :
              /\ out.raised = None => finalised
              /\ cal' = [cal EXCEPT
                           !.pc = IF out.raised = None THEN "returned" ELSE "raised",
                           !.numExperiments = out.numExperiments,
                           !.f1 = [closed |-> out.raised = None,
                                   written |-> out.written],
                           !.tempCalDataFile =
                               IF finalised THEN out.written ELSE <<>>,
                           !.raised = out.raised]
    /\ UNCHANGED <<seismicVars, cov, xf, ll, dv, dist, uq, rt>>

InitCal ==
    /\ SeismicIdle
    /\ cov = None /\ xf = None
    /\ ll = None /\ dv = None /\ dist = None /\ uq = None /\ rt = None
    /\ \E edpLengthsList \in EdpLengthsLists, file \in SeqsUpTo(CalLines, MaxCalLines) :
          cal = [pc |-> "call", file |-> file, edpLengthsList |-> edpLengthsList,
                 numExperiments |-> 0, f1 |-> None, tempCalDataFile |-> <<>>,
                 raised |-> None]

NextCal == CreateTempCalDataFile

SpecCal == InitCal /\ [][NextCal]_vars

(***************************************************************************)
(* transform_data_function and LogLikelihoodHandler.  A float is a record: *)
(* finite (an integer value here), NaN or one of the infinities, added as  *)
(* IEEE 754 adds them.  A transformed value (x + shift) / scale is kept as *)
(* the fraction [n, d].  Rows and response quantities are numbered from 1. *)
(***************************************************************************)
Fin(v) == [k |-> "fin", v |-> v]

NaN == [k |-> "nan", v |-> 0]

PosInf == [k |-> "pinf", v |-> 0]

NegInf == [k |-> "ninf", v |-> 0]

\* what log_likelihood_function may return
LogLikelihoodValues == {Fin(-1), NaN, PosInf, NegInf}

\* float addition
FloatAdd(a, b) ==
    IF a.k = "nan" \/ b.k = "nan" THEN NaN
    ELSE IF a.k = "fin" /\ b.k = "fin" THEN Fin(a.v + b.v)
    ELSE IF a.k = "fin" THEN b
    ELSE IF b.k = "fin" THEN a
    ELSE IF a.k = b.k THEN a
    ELSE NaN

\* lines 658-659: transformed_prediction - self.data, the single prediction row
\* broadcast over the rows of the data
ComputeResiduals(transformed_prediction, data) ==
    [r \in DOMAIN data |->
        [c \in DOMAIN data[r] |->
            LET p == transformed_prediction[1][c]
            IN  [n |-> p.n - data[r][c] * p.d, d |-> p.d]]]

\* A slice that always starts at the first column.
ResidualSliceFromStart(allResiduals, i, currentPosition, length) ==
    [c \in 1 .. length |-> allResiduals[i][c]]

\* allResiduals[i, currentPosition : currentPosition + length], lines 686-688
ResidualSlice(allResiduals, i, currentPosition, length) ==
    [c \in 1 .. length |-> allResiduals[i][currentPosition + c]]

\* lines 661-662
MakeMean(lengths, response_num) == [c \in 1 .. lengths[response_num] |-> 0]

\* lines 664-667
MakeCovariance(covariance_matrix_list, response_num, cov_multiplier) ==
    [multiplier |-> cov_multiplier, block |-> covariance_matrix_list[response_num]]

\* lines 679-681
StartLogLikelihoodLoop ==
    /\ ll # None
    /\ ll.pc = "call"
    /\ LET transformed_prediction ==
              TransformData(ll.prediction, ll.list_of_data_segment_lengths,
                            ll.list_of_scale_factors, ll.list_of_shift_factors)
       IN  ll' = [ll EXCEPT
                    !.pc = "loop",
                    !.prediction = transformed_prediction,
                    !.allResiduals = ComputeResiduals(transformed_prediction, ll.data),
                    !.loglike = Fin(0), !.i = 1, !.j = 1, !.currentPosition = 0]
    /\ UNCHANGED <<seismicVars, cov, xf, cal, dv, dist, uq, rt>>

\* lines 682-697: one call of the log-likelihood function
LogLikelihoodTerm ==
    /\ ll # None
    /\ ll.pc = "loop"
    /\ \E term \in LogLikelihoodValues :
          LET length == ll.list_of_data_segment_lengths[ll.j]
              residuals == ResidualSlice(ll.allResiduals, ll.i,
                                         ll.currentPosition, length)
              covariance == MakeCovariance(ll.covariance_matrix_list, ll.j,
                                           ll.list_of_covariance_multipliers[ll.j])
              mean == MakeMean(ll.list_of_data_segment_lengths, ll.j)
              loglike == IF term.k # "nan" THEN FloatAdd(ll.loglike, term)
                         ELSE FloatAdd(ll.loglike, NegInf)
              lastj == ll.j = Len(ll.list_of_data_segment_lengths)
          IN  ll' = [ll EXCEPT
                       !.calls = Append(@, [i |-> ll.i, j |-> ll.j,
                                            residuals |-> residuals,
                                            mean |-> mean, cov |-> covariance,
                                            returned |-> term]),
                       !.loglike = loglike,
                       !.currentPosition = IF lastj THEN 0 ELSE @ + length,
                       !.j = IF lastj THEN 1 ELSE @ + 1,
                       !.i = IF lastj THEN @ + 1 ELSE @,
                       !.pc = IF lastj /\ ll.i = ll.num_experiments
                              THEN "returned" ELSE "loop"]
    /\ UNCHANGED <<seismicVars, cov, xf, cal, dv, dist, uq, rt>>

\* The covariance list createCovarianceMatrix builds: experiments outermost.
ExperimentMajor(numExperiments, numQuantities) ==
    [k \in 1 .. numExperiments * numQuantities |->
        [experiment |-> ((k - 1) \div numQuantities) + 1,
         quantity |-> ((k - 1) % numQuantities) + 1]]

InitLL ==
    /\ SeismicIdle
    /\ cov = None /\ xf = None
    /\ cal = None /\ dv = None /\ dist = None /\ uq = None /\ rt = None
    /\ \E lengths \in EdpLengthsLists, num_experiments \in 1 .. MaxExperiments,
          flat \in BOOLEAN, plain \in BOOLEAN, unshifted \in BOOLEAN :
          LET quantities == 1 .. Len(lengths)
              columns == 1 .. Sum(lengths)
          IN  ll = [pc |-> "call",
                    num_experiments |-> num_experiments,
                    list_of_data_segment_lengths |-> lengths,
                    data |-> [r \in 1 .. num_experiments |->
                                [c \in columns |-> IF flat THEN r ELSE r + c]],
                    prediction |-> <<[c \in columns |-> IF flat THEN 1 ELSE c]>>,
                    passed |-> <<[c \in columns |-> IF flat THEN 1 ELSE c]>>,
                    list_of_scale_factors |->
                        [j \in quantities |-> IF plain THEN 1 ELSE j + 1],
                    list_of_shift_factors |->
                        [j \in quantities |-> IF unshifted THEN 0 ELSE j],
                    list_of_covariance_multipliers |-> [j \in quantities |-> j + 1],
                    covariance_matrix_list |->
                        ExperimentMajor(num_experiments, Len(lengths)),
                    allResiduals |-> None, calls |-> <<>>, loglike |-> Fin(0),
                    i |-> 0, j |-> 0, currentPosition |-> 0]

NextLL == StartLogLikelihoodLoop \/ LogLikelihoodTerm

SpecLL == InitLL /\ [][NextLL]_vars

(***************************************************************************)
(* CovarianceMatrixPreparer.getDefaultErrorVariances.  A float is          *)
(* m * 10^e / d here, with m = 0 for zero; a product whose magnitude is    *)
(* below the smallest double (about 4.9e-324) is zero, as it is in the     *)
(* floating-point arithmetic of the code.                                  *)
(***************************************************************************)
MinExponent == -324

\* decimal places of the smallest data entry, 1e-200
TinyDigits == 200

Zero == [m |-> 0, e |-> 0, d |-> 1]

\* m * 10^e after rounding to a double: zero below the smallest subnormal
RoundFloat(m, e) ==
    IF m = 0 THEN Zero
    ELSE LET digits == IF Abs(m) >= 100 THEN 2 ELSE IF Abs(m) >= 10 THEN 1 ELSE 0
         IN  IF e + digits < MinExponent THEN Zero ELSE [m |-> m, e |-> e, d |-> 1]

Times(a, b) == RoundFloat(a.m * b.m, a.e + b.e)

\* entries of calibrationData: 0, 1, -1 and 1e-200
CalibrationValues ==
    {Zero, [m |-> 1, e |-> 0, d |-> 1], [m |-> -1, e |-> 0, d |-> 1],
     [m |-> 1, e |-> -TinyDigits, d |-> 1]}

\* 1e-12, line 67
DefaultVariance == [m |-> 1, e |-> -12, d |-> 1]

\* 0.05, line 91
FivePercent == [m |-> 5, e |-> -2, d |-> 1]

\* calibrationData[:, currentIndex : currentIndex + edpLengthsList[i]]: its
\* entries row by row
BlockEntries(calibrationData, currentIndex, length) ==
    [k \in 1 .. Len(calibrationData) * length |->
        calibrationData[((k - 1) \div length) + 1][currentIndex + ((k - 1) % length) + 1]]

MaxExponent(S) == CHOOSE e \in {x.e : x \in S} : \A x \in S : x.e <= e

\* np.max(np.absolute(dataSlice)), line 89
MaxAbsolute(block) ==
    LET nonzero == {x \in Range(block) : x.m # 0}
    IN  IF nonzero = {} THEN Zero
        ELSE [m |-> 1, e |-> MaxExponent(nonzero), d |-> 1]

RECURSIVE GCD(_, _)
GCD(a, b) == IF b = 0 THEN a ELSE GCD(b, a % b)

\* What an entry contributes to sums next to entries of magnitude 1 and to
\* sums of squares: an entry as small as 1e-200 is absorbed by the first and
\* its square underflows to zero in the second.
Absorbed(x) == IF x.e < 0 THEN 0 ELSE x.m

\* np.nanvar(dataSlice), line 79: the mean of the squared deviations from
\* the mean, sum((n x - sum)^2) / n^3, kept as a reduced quotient
NanVar(block) ==
    LET n == Len(block)
        total == Sum([k \in 1 .. n |-> Absorbed(block[k])])
        squares == Sum([k \in 1 .. n |->
                          (n * Absorbed(block[k]) - total) * (n * Absorbed(block[k]) - total)])
        g == GCD(squares, n * n * n)
    IN  IF squares = 0 THEN Zero
        ELSE [m |-> squares \div g, e |-> 0, d |-> (n * n * n) \div g]

\* lines 89-91
OneExperimentVariance(v) ==
    IF v # Zero THEN Times(Times(FivePercent, v), Times(FivePercent, v))
    ELSE DefaultVariance

\* lines 79-81
ManyExperimentsVariance(v) == IF v # Zero THEN v ELSE DefaultVariance

\* lines 75-82 and 85-92: one iteration of the loop over edpLengthsList
DefaultErrorVarianceStep ==
    /\ dv # None
    /\ dv.pc = "loop"
    /\ LET length == dv.edpLengthsList[dv.i]
           dataSlice == BlockEntries(dv.calibrationData, dv.currentIndex, length)
           value == IF Len(dv.calibrationData) > 1
                    THEN ManyExperimentsVariance(NanVar(dataSlice))
                    ELSE OneExperimentVariance(MaxAbsolute(dataSlice))
       IN  dv' = [dv EXCEPT
                    !.defaultErrorVariances[dv.i] = value,
                    !.currentIndex = @ + length,
                    !.i = @ + 1,
                    !.pc = IF dv.i = Len(dv.edpLengthsList) THEN "returned" ELSE "loop"]
    /\ UNCHANGED <<seismicVars, cov, xf, cal, ll, dist, uq, rt>>

\* lines 67-69 and the data CovarianceMatrixPreparer holds
InitVar ==
    /\ SeismicIdle
    /\ cov = None /\ xf = None
    /\ cal = None /\ ll = None /\ dist = None /\ uq = None /\ rt = None
    /\ \E edpLengthsList \in EdpLengthsLists, numExperiments \in 1 .. MaxExperiments :
          \E calibrationData \in [1 .. numExperiments -> [1 .. Sum(edpLengthsList) -> CalibrationValues]] :
             dv = [pc |-> "loop",
                   edpLengthsList |-> edpLengthsList,
                   calibrationData |-> calibrationData,
                   defaultErrorVariances |-> [i \in DOMAIN edpLengthsList |-> DefaultVariance],
                   currentIndex |-> 0, i |-> 1]

NextVar == DefaultErrorVarianceStep

SpecVar == InitVar /\ [][NextVar]_vars

(***************************************************************************)
(* make_distributions.  A parameter is an integer or None; float(p) of an  *)
(* integer is the float of the same value and float(None) raises.  The     *)
(* classes of pdfs are constructors: an object is its class name and its   *)
(* keyword arguments.                                                      *)
(***************************************************************************)
MaxRows == 2

IntParam(v) == [t |-> "int", v |-> v]

NoneParam == [t |-> "none", v |-> 0]

Float(p) == [t |-> "float", v |-> p.v]

Families == {"Uniform", "Normal", "Half-Normal", "Truncated-Normal", "InvGamma", "Beta", "Lognormal", "Gumbel", "Weibull", "Exponential", "Truncated exponential", "Gamma", "Chisquare", "Discrete", "uniform", "Unknown"}

VariableRows == [distribution : Families, Par1 : {IntParam(0), IntParam(1)}, Par2 : {IntParam(1), NoneParam}, Par3 : {IntParam(0)}, Par4 : {IntParam(1)}]

Object(class, args) == [class |-> class, args |-> args]

\* The parameters of a row that the branch of its family passes to float().
FloatedParams(row) ==
    CASE row.distribution \in {"Half-Normal", "Exponential", "Chisquare"} -> {row.Par1}
      [] row.distribution \in {"Uniform", "Normal", "InvGamma", "Lognormal", "Gumbel", "Weibull", "Gamma"} -> {row.Par1, row.Par2}
      [] row.distribution = "Truncated exponential" -> {row.Par1, row.Par2, row.Par3}
      [] row.distribution \in {"Truncated-Normal", "Beta"} -> {row.Par1, row.Par2, row.Par3, row.Par4}
      [] row.distribution = "Discrete" /\ row.Par2 # NoneParam -> {row.Par1, row.Par2}
      [] OTHER -> {}

\* float(None) raises TypeError
RaisesTypeError(row) == NoneParam \in FloatedParams(row)

IfFamily(row, family, object) == IF row.distribution = family THEN <<object>> ELSE <<>>

\* An unrecognized row gets a standard Normal.
DistributionsOrDefault(row) ==
    IF row.distribution = "Uniform"
    THEN <<Object("Uniform", <<<<"lower", Float(row.Par1)>>, <<"upper", Float(row.Par2)>>>>)>>
    ELSE <<Object("Normal", <<<<"mu", Float(row.Par1)>>, <<"sig", Float(row.Par2)>>>>)>>

\* lines 467-580: what one pass of the loop body appends, the tests taken in
\* the order of the code
DistributionsFor(row) ==
    IfFamily(row, "Uniform", Object("Uniform", <<<<"lower", Float(row.Par1)>>, <<"upper", Float(row.Par2)>>>>))
    \o IfFamily(row, "Normal", Object("Normal", <<<<"mu", Float(row.Par1)>>, <<"sig", Float(row.Par2)>>>>))
    \o IfFamily(row, "Half-Normal", Object("Halfnormal", <<<<"sig", Float(row.Par1)>>>>))
    \o IfFamily(row, "Truncated-Normal", Object("TrunNormal", <<<<"mu", Float(row.Par1)>>, <<"sig", Float(row.Par2)>>, <<"a", Float(row.Par3)>>, <<"b", Float(row.Par4)>>>>))
    \o IfFamily(row, "InvGamma", Object("InvGamma", <<<<"a", Float(row.Par1)>>, <<"b", Float(row.Par2)>>>>))
    \o IfFamily(row, "Beta", Object("BetaDist", <<<<"alpha", Float(row.Par1)>>, <<"beta", Float(row.Par2)>>, <<"lowerbound", Float(row.Par3)>>, <<"upperbound", Float(row.Par4)>>>>))
    \o IfFamily(row, "Lognormal", Object("LogNormDist", <<<<"mu", Float(row.Par1)>>, <<"sigma", Float(row.Par2)>>>>))
    \o IfFamily(row, "Gumbel", Object("GumbelDist", <<<<"alpha", Float(row.Par1)>>, <<"beta", Float(row.Par2)>>>>))
    \o IfFamily(row, "Weibull", Object("WeibullDist", <<<<"shape", Float(row.Par1)>>, <<"scale", Float(row.Par2)>>>>))
    \o IfFamily(row, "Exponential", Object("ExponentialDist", <<<<"lamda", Float(row.Par1)>>>>))
    \o IfFamily(row, "Truncated exponential", Object("TruncatedExponentialDist", <<<<"lamda", Float(row.Par1)>>, <<"lower", Float(row.Par2)>>, <<"upper", Float(row.Par3)>>>>))
    \o IfFamily(row, "Gamma", Object("GammaDist", <<<<"k", Float(row.Par1)>>, <<"lamda", Float(row.Par2)>>>>))
    \o IfFamily(row, "Chisquare", Object("ChiSquareDist", <<<<"k", Float(row.Par1)>>>>))
    \o IfFamily(row, "Discrete", IF row.Par2 = NoneParam THEN Object("ConstantInteger", <<<<"value", row.Par1>>>>) ELSE Object("DiscreteDist", <<<<"values", Float(row.Par1)>>, <<"weights", Float(row.Par2)>>>>))

\* lines 466-580: the loop body for row i
MakeDistributionsRow ==
    /\ dist # None
    /\ dist.pc = "loop"
    /\ dist.i <= Len(dist.variables)
    /\ LET row == dist.variables[dist.i]
       IN  IF RaisesTypeError(row)
           THEN dist' = [dist EXCEPT !.pc = "raised"]
           ELSE dist' = [dist EXCEPT
                           !.all_distributions_list = @ \o DistributionsFor(row),
                           !.i = @ + 1]
    /\ UNCHANGED <<seismicVars, cov, xf, cal, ll, dv, uq, rt>>

\* line 582
MakeDistributionsReturn ==
    /\ dist # None
    /\ dist.pc = "loop"
    /\ dist.i > Len(dist.variables)
    /\ dist' = [dist EXCEPT !.pc = "returned"]
    /\ UNCHANGED <<seismicVars, cov, xf, cal, ll, dv, uq, rt>>

\* line 464
InitDist ==
    /\ SeismicIdle
    /\ cov = None /\ xf = None
    /\ cal = None /\ ll = None /\ dv = None /\ uq = None /\ rt = None
    /\ \E variables \in SeqsUpTo(VariableRows, MaxRows) :
          dist = [pc |-> "loop", variables |-> variables, i |-> 1,
                  all_distributions_list |-> <<>>]

NextDist == MakeDistributionsRow \/ MakeDistributionsReturn

SpecDist == InitDist /\ [][NextDist]_vars

(***************************************************************************)
(* UQpyEngine.main.  subprocess.run blocks: a subprocess is started by one *)
(* step of main and main takes its next step only after it has returned.   *)
(* os.chmod raises when the file is missing or is not the caller's to      *)
(* change: on preprocessUQpy.py at line 44, on the driver file at lines 56  *)
(* and 63; os.stat at line 62 raises when the driver file is missing.       *)
(***************************************************************************)
RunTypes == {"runningLocal", "runningRemote"}

Platforms == {"darwin", "linux", "linux2", "win32", "cygwin"}

DriverFiles == {"workflow_driver", "driver"}

ExitStatuses == {0, 1}

\* platform.system() on each sys.platform
PlatformSystem(platform) ==
    CASE platform = "darwin" -> "Darwin"
      [] platform \in {"linux", "linux2"} -> "Linux"
      [] platform = "win32" -> "Windows"
      [] OTHER -> "CYGWIN_NT"

\* Only 'linux' is taken for a Unix platform.
IsLinuxOnly(platform) == platform = "linux"

\* line 33
IsUnixPlatform(platform) == platform = "darwin" \/ platform = "linux" \/ platform = "linux2"

\* The engine is launched for every run type.
LaunchesAlways(runtype) == TRUE

\* line 65
LaunchesEngine(runtype) == runtype \in {"runningLocal"}

\* lines 31-39
GetOsType ==
    /\ uq # None
    /\ uq.pc = "start"
    /\ IF uq.runtype \in {"runningLocal"}
       THEN IF IsUnixPlatform(uq.platform)
            THEN uq' = [uq EXCEPT !.osType = "Linux", !.pc = "preprocess"]
            ELSE uq' = [uq EXCEPT !.driverfile = uq.driverfile \o ".bat",
                                  !.osType = "Windows", !.pc = "preprocess"]
       ELSE IF uq.runtype \in {"runningRemote"}
            THEN uq' = [uq EXCEPT !.osType = "Linux", !.pc = "preprocess"]
            ELSE uq' = [uq EXCEPT !.pc = "preprocess"]
    /\ UNCHANGED <<seismicVars, cov, xf, cal, ll, dv, dist, rt>>

\* lines 42-53: the permission change on preprocessUQpy.py; when it does
\* not raise, the command is built and the preprocessing subprocess starts
StartPreprocessing ==
    /\ uq # None
    /\ uq.pc = "preprocess"
    /\ IF ~uq.script_chmod_ok
       THEN uq' = [uq EXCEPT !.pc = "raised"]
       ELSE uq' = [uq EXCEPT
                     !.script_mode = "S_IWUSR|S_IXUSR|S_IRUSR|S_IXOTH",
                     !.preprocessorCommand = [driverFile |-> uq.driverfile,
                                              runType |-> uq.runtype,
                                              osType |-> uq.osType],
                     !.running = @ \cup {"preprocessUQpy"},
                     !.started = Append(@, "preprocessUQpy"),
                     !.pc = "preprocessing"]
    /\ UNCHANGED <<seismicVars, cov, xf, cal, ll, dv, dist, rt>>

\* line 53: subprocess.run returns, whatever the exit status
PreprocessingReturns ==
    /\ uq # None
    /\ uq.pc = "preprocessing"
    /\ \E status \in ExitStatuses :
          uq' = [uq EXCEPT !.running = @ \ {"preprocessUQpy"},
                           !.returncode = status,
                           !.pc = "permissions"]
    /\ UNCHANGED <<seismicVars, cov, xf, cal, ll, dv, dist, rt>>

\* lines 55-63: os.chmod and os.stat raise when the driver file is missing,
\* os.chmod when its mode cannot be changed
ChangeDriverPermissions ==
    /\ uq # None
    /\ uq.pc = "permissions"
    /\ IF ~uq.driver_exists \/ ~uq.driver_chmod_ok
       THEN uq' = [uq EXCEPT !.pc = "raised"]
       ELSE uq' = [uq EXCEPT
                     !.chmod = IF uq.runtype \in {"runningLocal"}
                               THEN @ \o <<uq.driverfile, uq.driverfile>>
                               ELSE @ \o <<uq.driverfile>>,
                     !.pc = "launch"]
    /\ UNCHANGED <<seismicVars, cov, xf, cal, ll, dv, dist, rt>>

\* lines 65-67
LaunchEngine ==
    /\ uq # None
    /\ uq.pc = "launch"
    /\ IF LaunchesEngine(uq.runtype)
       THEN uq' = [uq EXCEPT !.running = @ \cup {"UQpyAnalysis"},
                             !.started = Append(@, "UQpyAnalysis"),
                             !.pc = "engine"]
       ELSE uq' = [uq EXCEPT !.pc = "done"]
    /\ UNCHANGED <<seismicVars, cov, xf, cal, ll, dv, dist, rt>>

\* line 67: subprocess.run returns
EngineReturns ==
    /\ uq # None
    /\ uq.pc = "engine"
    /\ uq' = [uq EXCEPT !.running = @ \ {"UQpyAnalysis"}, !.pc = "done"]
    /\ UNCHANGED <<seismicVars, cov, xf, cal, ll, dv, dist, rt>>

\* the command line accepted by click, lines 20-26, and the files it finds
InitUQ ==
    /\ SeismicIdle
    /\ cov = None /\ xf = None
    /\ cal = None /\ ll = None /\ dv = None /\ dist = None /\ rt = None
    /\ \E runtype \in RunTypes, platform \in Platforms, driverfile \in DriverFiles,
          script_chmod_ok \in BOOLEAN, driver_exists \in BOOLEAN,
          driver_chmod_ok \in BOOLEAN :
          /\ driver_chmod_ok => driver_exists
          /\ uq = [pc |-> "start", runtype |-> runtype, platform |-> platform,
                   supplied |-> driverfile, driverfile |-> driverfile,
                   script_chmod_ok |-> script_chmod_ok,
                   script_mode |-> "unchanged",
                   driver_exists |-> driver_exists,
                   driver_chmod_ok |-> driver_chmod_ok,
                   osType |-> PlatformSystem(platform),
                   preprocessorCommand |-> None,
                   running |-> {}, started |-> <<>>, returncode |-> 0,
                   chmod |-> <<>>]

NextUQ ==
    \/ GetOsType
    \/ StartPreprocessing
    \/ PreprocessingReturns
    \/ ChangeDriverPermissions
    \/ LaunchEngine
    \/ EngineReturns

SpecUQ == InitUQ /\ [][NextUQ]_vars

(***************************************************************************)
(* Result_Time.averageOverDaysCrewTotalReport.  A report is a sequence of  *)
(* rows in index order; a row holds its index label (elapsed seconds) and  *)
(* two crew columns.  A mean is kept as its sum and count, the count being *)
(* 0 for the NaN that the mean of an empty slice is.                       *)
(***************************************************************************)
MaxReportRows == 3

SecondsPerDay == 24 * 3600

ReportIndexValues == {0, 43200, 86400, 86401, 172800}

CrewValues == {0, 2}

ReportRows == [index : ReportIndexValues, idle : CrewValues, busy : CrewValues]

IsSortedReport(report) == \A k \in 1 .. Len(report) - 1 : report[k].index <= report[k + 1].index

\* crew_report.index.max(), line 23
IndexMax(report) == CHOOSE m \in {report[k].index : k \in DOMAIN report} : \A k \in DOMAIN report : report[k].index <= m

\* int(np.ceil(time_max_seconds / 24 / 3600)), line 24
TimeMaxDays(time_max_seconds) ==
    IF time_max_seconds % SecondsPerDay = 0
    THEN time_max_seconds \div SecondsPerDay
    ELSE (time_max_seconds \div SecondsPerDay) + 1

\* A slice that leaves its upper label out.
LocHalfOpen(report, first, last) == SelectSeq(report, LAMBDA row : first <= row.index /\ row.index < last)

\* crew_report.loc[first : last] on a sorted index: both labels included
Loc(report, first, last) == SelectSeq(report, LAMBDA row : first <= row.index /\ row.index <= last)

RECURSIVE SumColumn(_, _)
SumColumn(rows, column) ==
    IF rows = <<>> THEN 0
    ELSE SumColumn(SubSeq(rows, 1, Len(rows) - 1), column) + rows[Len(rows)][column]

\* daily_crew.mean(), line 31
ColumnMeans(rows) ==
    [idle |-> [sum |-> SumColumn(rows, "idle"), count |-> Len(rows)],
     busy |-> [sum |-> SumColumn(rows, "busy"), count |-> Len(rows)]]

\* lines 23-28: the empty daily table
CreateDailyReport ==
    /\ rt # None
    /\ rt.pc = "call"
    /\ LET time_max_days == TimeMaxDays(IndexMax(rt.crew_report))
       IN  rt' = [rt EXCEPT
                    !.time_max_days = time_max_days,
                    !.daily_crew_report = [d \in 1 .. time_max_days |-> None],
                    !.day = 0,
                    !.pc = IF time_max_days = 0 THEN "returned" ELSE "loop"]
    /\ UNCHANGED <<seismicVars, cov, xf, cal, ll, dv, dist, uq>>

\* lines 29-32: one day of the loop
AverageOneDay ==
    /\ rt # None
    /\ rt.pc = "loop"
    /\ LET daily_crew == Loc(rt.crew_report, rt.day * 24 * 3600, (rt.day + 1) * 24 * 3600)
       IN  rt' = [rt EXCEPT
                    !.daily_crew_report[rt.day + 1] = ColumnMeans(daily_crew),
                    !.day = @ + 1,
                    !.pc = IF rt.day + 1 = rt.time_max_days THEN "returned" ELSE "loop"]
    /\ UNCHANGED <<seismicVars, cov, xf, cal, ll, dv, dist, uq>>

InitCrew ==
    /\ SeismicIdle
    /\ cov = None /\ xf = None
    /\ cal = None /\ ll = None /\ dv = None /\ dist = None /\ uq = None
    /\ \E n \in 1 .. MaxReportRows :
          \E crew_report \in [1 .. n -> ReportRows] :
             /\ IsSortedReport(crew_report)
             /\ rt = [pc |-> "call", crew_report |-> crew_report,
                      time_max_days |-> 0, daily_crew_report |-> <<>>, day |-> 0]

NextCrew == CreateDailyReport \/ AverageOneDay

SpecCrew == InitCrew /\ [][NextCrew]_vars

(***************************************************************************)
(* Result_Time.convertTimeSecondToDay and convertTimeSecondToHour.  The    *)
(* named column holds integers before the first conversion and doubles     *)
(* after it.  A double is kept as sign * mantissa * 2^e with a mantissa of *)
(* MantissaBits bits, first bit 1, written as a sequence of bits; a        *)
(* division by an integer rounds to nearest, ties to even, as IEEE 754     *)
(* does.  A second conversion is applied with time_shift = 0.              *)
(***************************************************************************)
MantissaBits == 53

DigitBits == 12

MaxTimeRows == 2

MaxConversions == 2

TimeValues == {0, 7, 3600, 86400}

TimeShifts == {0, 7}

RECURSIVE Bits(_)
Bits(n) == IF n = 0 THEN <<>> ELSE Append(Bits(n \div 2), n % 2)

Zeros(n) == [k \in 1 .. n |-> 0]

FloatZero == [s |-> 0, m |-> <<>>, e |-> 0]

\* the double of an integer
ToFloat(n) ==
    IF n = 0 THEN FloatZero
    ELSE LET b == Bits(Abs(n))
         IN  [s |-> IF n < 0 THEN -1 ELSE 1,
              m |-> b \o Zeros(MantissaBits - Len(b)),
              e |-> Len(b) - MantissaBits]

\* the number written by a short sequence of bits
RECURSIVE BitsValue(_)
BitsValue(bits) ==
    IF bits = <<>> THEN 0
    ELSE 2 * BitsValue(SubSeq(bits, 1, Len(bits) - 1)) + bits[Len(bits)]

\* bits as digits of DigitBits bits each, zeros added in front
Digits(bits) ==
    LET n == (Len(bits) + DigitBits - 1) \div DigitBits
        padded == Zeros(n * DigitBits - Len(bits)) \o bits
    IN  [j \in 1 .. n |-> BitsValue(SubSeq(padded, (j - 1) * DigitBits + 1, j * DigitBits))]

\* quotient digits and remainder of the long division of digits by d
RECURSIVE LongDivide(_, _)
LongDivide(digits, d) ==
    IF digits = <<>> THEN [quotient |-> <<>>, rem |-> 0]
    ELSE LET before == LongDivide(SubSeq(digits, 1, Len(digits) - 1), d)
             r == (2 ^ DigitBits) * before.rem + digits[Len(digits)]
         IN  [quotient |-> Append(before.quotient, r \div d), rem |-> r % d]

\* the bits of a sequence of digits, without the zeros in front
DigitsToBits(digits) ==
    LET all == [k \in 1 .. Len(digits) * DigitBits |->
                  (digits[((k - 1) \div DigitBits) + 1] \div (2 ^ (DigitBits - 1 - ((k - 1) % DigitBits)))) % 2]
        ones == {k \in DOMAIN all : all[k] = 1}
    IN  IF ones = {} THEN <<>>
        ELSE SubSeq(all, CHOOSE k \in ones : \A j \in ones : k <= j, Len(all))

\* bits + 1, as long as bits
Increment(bits) ==
    LET zeros == {k \in DOMAIN bits : bits[k] = 0}
        last == IF zeros = {} THEN 0 ELSE CHOOSE k \in zeros : \A j \in zeros : j <= k
    IN  [k \in DOMAIN bits |-> IF k < last THEN bits[k] ELSE IF k = last THEN 1 ELSE 0]

\* x / d in double arithmetic, d a positive integer
Divide(x, d) ==
    IF x.s = 0 THEN FloatZero
    ELSE LET shift == Len(Bits(d)) + 2
             r == LongDivide(Digits(x.m \o Zeros(shift)), d)
             q == DigitsToBits(r.quotient)
             top == SubSeq(q, 1, MantissaBits)
             sticky == r.rem # 0 \/ \E k \in MantissaBits + 2 .. Len(q) : q[k] = 1
             up == q[MantissaBits + 1] = 1 /\ (sticky \/ top[MantissaBits] = 1)
             carry == up /\ \A k \in 1 .. MantissaBits : top[k] = 1
             e == x.e - shift + (Len(q) - MantissaBits)
         IN  [s |-> x.s,
              m |-> IF carry THEN <<1>> \o Zeros(MantissaBits - 1)
                    ELSE IF up THEN Increment(top) ELSE top,
              e |-> IF carry THEN e + 1 ELSE e]

IntValue(n) == [k |-> "int", n |-> n, f |-> FloatZero]

FloatValue(f) == [k |-> "float", n |-> 0, f |-> f]

\* value - time_shift, lines 15 and 19
Shifted(value, time_shift) ==
    IF value.k = "int" THEN IntValue(value.n - time_shift) ELSE value

\* value / d, lines 16 and 20
Divided(value, d) ==
    IF value.k = "int" THEN FloatValue(Divide(ToFloat(value.n), d))
    ELSE FloatValue(Divide(value.f, d))

\* time_shift values a conversion of this table is applied with
ShiftsFor(data) ==
    IF \A k \in DOMAIN data : data[k].time.k = "int" THEN TimeShifts ELSE {0}

\* lines 14-16
ConvertTimeSecondToDay ==
    /\ rt # None
    /\ rt.pc = "table"
    /\ Len(rt.calls) < MaxConversions
    /\ \E time_shift \in ShiftsFor(rt.data) :
          rt' = [rt EXCEPT
                   !.data = [k \in DOMAIN rt.data |->
                               [rt.data[k] EXCEPT
                                  !.time = Divided(Divided(Shifted(@, time_shift), 24), 3600)]],
                   !.calls = Append(@, [fn |-> "convertTimeSecondToDay",
                                        time_shift |-> time_shift])]
    /\ UNCHANGED <<seismicVars, cov, xf, cal, ll, dv, dist, uq>>

\* lines 18-20
ConvertTimeSecondToHour ==
    /\ rt # None
    /\ rt.pc = "table"
    /\ Len(rt.calls) < MaxConversions
    /\ \E time_shift \in ShiftsFor(rt.data) :
          rt' = [rt EXCEPT
                   !.data = [k \in DOMAIN rt.data |->
                               [rt.data[k] EXCEPT
                                  !.time = Divided(Shifted(@, time_shift), 3600)]],
                   !.calls = Append(@, [fn |-> "convertTimeSecondToHour",
                                        time_shift |-> time_shift])]
    /\ UNCHANGED <<seismicVars, cov, xf, cal, ll, dv, dist, uq>>

\* the caller's table: an index, the time column and another column
InitTime ==
    /\ SeismicIdle
    /\ cov = None /\ xf = None
    /\ cal = None /\ ll = None /\ dv = None /\ dist = None /\ uq = None
    /\ \E n \in 1 .. MaxTimeRows :
          \E times \in [1 .. n -> TimeValues] :
             LET data == [k \in 1 .. n |->
                            [index |-> k - 1, time |-> IntValue(times[k]), crew |-> 10 * k]]
             IN  rt = [pc |-> "table", data |-> data, original |-> data, calls |-> <<>>]

NextTime == ConvertTimeSecondToDay \/ ConvertTimeSecondToHour

SpecTime == InitTime /\ [][NextTime]_vars

(***************************************************************************)
(* Properties of seismic_design.                                           *)
(***************************************************************************)
DriftOk(d) == DriftWithinLimit([building_1 EXCEPT !.story_drift = d])

\* C1: when the drift loop has run at least once and stopped, building_1
\* carries the sizes it had at the start of the last executed iteration,
\* which are the last sizes whose drift was seen to satisfy the inequality;
\* the sizes of the final optimize_member_for_drift call, whose drift broke
\* the inequality, are gone.
C1_LastFeasibleSizesRestored ==
    (pc \in {"column_check", "column_revise"}) =>
       LET n == Len(hist)
       IN  /\ iteration >= 1
           /\ n = iteration + 1
           /\ building_1.member_size = hist[n - 1].sizes
           /\ DriftOk(hist[n - 1].drift)
           /\ ~DriftOk(hist[n].drift)
           /\ last_member = building_1.member_size

C1_Witness ==
    /\ pc = "column_check"
    /\ iteration = 2
    /\ building_1.member_size = hist[2].sizes
    /\ building_1.member_size # hist[1].sizes

\* C2: when the inequality is already false for the initial sizes the run
\* writes to stderr and exits with 99 having made only the initial analysis,
\* no check and no file; after one or more iterations 99 never happens.
C2_Exit99IffNoIteration ==
    /\ (pc = "exit99") =>
          /\ iteration = 0
          /\ stderr_writes >= 1
          /\ nAnalysis = 2
          /\ column_set = None /\ beam_set = None /\ connection_set = None
          /\ \A i \in 1 .. 3 : elastic_demand[i] = None
          /\ files = None
    /\ (pc \notin {"start", "drift_loop"} /\ iteration = 0) => pc = "exit99"
    /\ (iteration >= 1) => pc # "exit99"

C2_Witness ==
    /\ pc = "exit99"
    /\ stderr_writes = 2
    /\ ~DriftWithinLimit(building_1)

\* C3: at persistence every Column, Beam and Connection of the optimal sets
\* has a passing flag.
C3_OptimalSetsPass ==
    (pc = "done") =>
       /\ \A s \in Stories, c \in ColumnNos :
             /\ files.optimal_column_set[s][c].ok
             /\ ConnectionFlag(files.optimal_connection_set[s][c])
       /\ \A s \in Stories, b \in Bays : files.optimal_beam_set[s][b].ok

\* C4: the story drifts written to OptimalStoryDrift.csv satisfy the drift
\* inequality whatever upscales followed the drift loop.
C4_FinalDriftWithinLimit ==
    (pc = "done") => DriftOk(files.OptimalStoryDrift)

\* C5: every SCWB iteration, of building_1 and of building_2, picks the
\* story to upscale from the Zx of the columns the revised design has now:
\* the roof for a roof joint, the story above when Zx above is less than
\* half of Zx at the target story, else the target story.
C5_SelectionReadsOwnColumns ==
    (scwb # None) =>
       scwb.target_story =
          IF scwb.target_story_index = NumStory - 1 THEN scwb.target_story_index
          ELSE IF scwb.zx_above * 2 < scwb.zx_target
          THEN scwb.target_story_index + 1
          ELSE scwb.target_story_index

ShapedAsJoint(conn, s, c) ==
    /\ conn.joint = (IF s = NumStory - 1 THEN "top" ELSE "typical") \o " "
                    \o (IF c \in {0, NumXBay} THEN "exterior" ELSE "interior")
    /\ (conn.top_column = None) <=> (s = NumStory - 1)
    /\ (s # NumStory - 1) =>
          (conn.top_column.story = s + 1 /\ conn.top_column.no = c)
    /\ conn.bottom_column.story = s /\ conn.bottom_column.no = c
    /\ (conn.right_beam = None) <=> (c \in {0, NumXBay})

\* C6: every Connection built, in the first check, in a rebuild or in a
\* constructability pass, has the joint type of its place (top on the roof,
\* exterior at the two ends), no top column exactly on the roof and else the
\* column at (s+1, c), the bottom column at (s, c), and no right beam
\* exactly at the two ends.
C6_ConnectionShape ==
    \A s \in Stories, c \in ColumnNos :
       /\ (connection_set # None) => ShapedAsJoint(connection_set[s][c], s, c)
       /\ (construction_connection_set # None) =>
             ShapedAsJoint(construction_connection_set[s][c], s, c)

C6_Witness ==
    /\ pc = "store"
    /\ scwb # None
    /\ scwb.design = 2
    /\ \E s \in Stories, c \in ColumnNos :
          connection_set[s][c].bottom_column.obj.size
             # construction_connection_set[s][c].bottom_column.obj.size


(***************************************************************************)
(* Properties of createCovarianceMatrix.                                   *)
(***************************************************************************)
ClaimedType(R, C, N) ==
    IF R = 1 /\ C = 1 THEN "scalar"
    ELSE IF (R = 1 /\ C = N) \/ (R = N /\ C = 1) THEN "diagonal"
    ELSE IF R = N /\ C = N THEN "matrix"
    ELSE "DataProcessingError"

\* C7: under either runType, an existing '<edpName>.<expNum>.sigma' with R
\* non-blank rows of C words each is tagged 'scalar' for 1x1, 'diagonal'
\* for 1xN or Nx1, 'matrix' for NxN, and any other shape raises
\* DataProcessingError.
C7_ClassifiedByShape ==
    (cov # None /\ cov.last # None /\ cov.last.file.exists
        /\ ~cov.last.scan.raised) =>
       LET expected == ClaimedType(cov.last.scan.numRows, cov.last.scan.numCols,
                                   cov.last.edpLength)
       IN  IF expected = "DataProcessingError"
           THEN cov.raised = "DataProcessingError"
           ELSE /\ cov.raised = ""
                /\ cov.covarianceTypeList # <<>>
                /\ cov.covarianceTypeList[Len(cov.covarianceTypeList)] = expected

\* C8 as stated: the two lists have one entry per response quantity, that
\* is len(edpNamesList) entries, whatever numExperiments is.
C8_OneEntryPerQuantity ==
    (cov # None /\ cov.pc = "returned") =>
       /\ Len(cov.self.covarianceMatrixList) = Len(cov.edpLengthsList)
       /\ Len(cov.self.covarianceTypeList) = Len(cov.edpLengthsList)

\* C8 amended: on return the covariance list and the type list kept on the
\* object have the same length numExperiments x len(edpNamesList), one entry
\* per experiment and response quantity with the experiments outermost, and
\* only the covariance list is the return value.
C8_OneEntryPerExperimentAndQuantity ==
    (cov # None /\ cov.pc = "returned") =>
       LET n == Len(cov.edpLengthsList)
       IN  /\ Len(cov.self.covarianceMatrixList) = cov.numExperiments * n
           /\ Len(cov.self.covarianceTypeList) = cov.numExperiments * n
           /\ \A k \in 1 .. cov.numExperiments * n :
                 cov.order[k] = <<((k - 1) \div n) + 1, (k - 1) % n>>
           /\ cov.returned = <<cov.self.covarianceMatrixList>>

C8_Witness ==
    /\ cov # None
    /\ cov.pc = "returned"
    /\ cov.numExperiments = 2
    /\ Len(cov.edpLengthsList) = 2
    /\ Len(cov.self.covarianceTypeList) = 4
    /\ "matrix" \in Range(cov.self.covarianceTypeList)

(***************************************************************************)
(* Properties of computeScaleAndShiftFactors.                              *)
(***************************************************************************)
\* The largest absolute value in the columns of response quantity j.
MaxOfAbs(j) ==
    LET before == Sum(SubSeq(xf.edpLengthsList, 1, j - 1))
    IN  Max({Abs(v) : v \in DataSlice(xf.calibrationData, before,
                                      xf.edpLengthsList[j])})

\* C9: the scale factor of every response quantity is the largest absolute
\* value of its block when that is not zero, and 1 when the block is all
\* zeros, also when the entry of largest magnitude is negative.
C9_ScaleIsMaxOfAbs ==
    (xf # None /\ xf.pc = "returned") =>
       \A j \in DOMAIN xf.edpLengthsList :
          xf.scaleFactors[j] = IF MaxOfAbs(j) # 0 THEN MaxOfAbs(j) ELSE 1

\* C10: the shift factor of every response quantity is 1 when the largest
\* absolute value of its own block is 0 and 0 otherwise, whatever the
\* quantities before it hold.
C10_ShiftPerQuantity ==
    (xf # None /\ xf.pc = "returned") =>
       \A j \in DOMAIN xf.edpLengthsList :
          xf.shiftFactors[j] = IF MaxOfAbs(j) = 0 THEN 1 ELSE 0

(***************************************************************************)
(* Properties of createTempCalDataFile.                                    *)
(***************************************************************************)
\* Positions of the lines that are not blank, in file order.
DataLines(file) ==
    SelectSeq([k \in 1 .. Len(file) |-> k], LAMBDA k : ~file[k].blank)

\* Positions of the data lines whose word count is not the expected one.
WrongLines(file, expected) ==
    {k \in 1 .. Len(file) : ~file[k].blank /\ file[k].words # expected}

\* C11: the file is accepted exactly when every non-blank line has
\* sum(edpLengthsList) words; then numExperiments is the number of non-blank
\* lines and they are written in order numbered 1..numExperiments; else
\* DataProcessingError names the first offending line by its position in
\* the file, blank lines counted, its word count and the expected count.
C11_AcceptsExactLineLength ==
    (cal # None /\ cal.pc # "call") =>
       LET expected == Sum(cal.edpLengthsList)
           wrong == WrongLines(cal.file, expected)
           data == DataLines(cal.file)
       IN  IF wrong = {}
           THEN /\ cal.pc = "returned"
                /\ cal.numExperiments = Len(data)
                /\ Tail(cal.tempCalDataFile) =
                      [k \in 1 .. Len(data) |->
                          [number |-> k, interface |-> 1, line |-> data[k]]]
           ELSE LET first == CHOOSE k \in wrong : \A other \in wrong : k <= other
                IN  /\ cal.pc = "raised"
                    /\ cal.raised = [error |-> "DataProcessingError",
                                     linenum |-> first,
                                     entries |-> cal.file[first].words,
                                     expected |-> expected]

C11_Witness ==
    /\ cal # None
    /\ cal.pc = "raised"
    /\ cal.file[1].blank
    /\ cal.raised.linenum = 3
    /\ cal.numExperiments = 1

(***************************************************************************)
(* Properties of evaluate_log_likelihood.                                  *)
(***************************************************************************)
Returned(k) == ll.calls[k].returned

\* C12: the value returned is negative infinity whenever one of the terms
\* is NaN, whatever the other terms are.
C12_NaNTermGivesNegInf ==
    (ll # None /\ ll.pc = "returned"
        /\ \E k \in DOMAIN ll.calls : Returned(k) = NaN) =>
       ll.loglike = NegInf

Front(q) == SubSeq(q, 1, Len(q) - 1)

Last(q) == q[Len(q)]

RECURSIVE FloatSum(_)
FloatSum(q) == IF q = <<>> THEN Fin(0) ELSE FloatAdd(FloatSum(Front(q)), Last(q))

\* The call made for experiment i and response quantity j.
ExpectedCall(k) ==
    LET nq == Len(ll.list_of_data_segment_lengths)
        i == ((k - 1) \div nq) + 1
        j == ((k - 1) % nq) + 1
        lengths == ll.list_of_data_segment_lengths
        before == Sum(SubSeq(lengths, 1, j - 1))
    IN  [i |-> i, j |-> j,
         residuals |->
            [c \in 1 .. lengths[j] |->
                LET x == ll.prediction[1][before + c]
                IN  [n |-> x.n - ll.data[i][before + c] * x.d, d |-> x.d]],
         mean |-> [c \in 1 .. lengths[j] |-> 0],
         cov |-> [multiplier |-> ll.list_of_covariance_multipliers[j],
                  block |-> [experiment |-> 1, quantity |-> j]]]

CalledOncePerPair ==
    /\ Len(ll.calls) = ll.num_experiments * Len(ll.list_of_data_segment_lengths)
    /\ \A k \in DOMAIN ll.calls :
          LET e == ExpectedCall(k)
              c == ll.calls[k]
          IN  /\ c.i = e.i /\ c.j = e.j
              /\ c.residuals = e.residuals
              /\ c.mean = e.mean
              /\ c.cov = e.cov
              /\ \A x \in DOMAIN ll.prediction[1] :
                    LET q == SegmentOf(ll.list_of_data_segment_lengths, x, 1)
                    IN  ll.prediction[1][x].d = ll.list_of_scale_factors[q]

\* C13 as stated: one call per (experiment, quantity) with that row's
\* residual segment, a zero mean and multiplier_j x covariance_matrix_list[j]
\* (the entry of experiment 1), and the result is the sum of the terms.
C13_ResultIsSumOfTerms ==
    (ll # None /\ ll.pc = "returned") =>
       /\ CalledOncePerPair
       /\ ll.loglike = FloatSum([k \in DOMAIN ll.calls |-> Returned(k)])

\* C13 amended: the same calls, and the result is the sum of the terms with
\* every NaN term counted as negative infinity.
C13_ResultIsSumWithNaNAsNegInf ==
    (ll # None /\ ll.pc = "returned") =>
       /\ CalledOncePerPair
       /\ ll.loglike =
             FloatSum([k \in DOMAIN ll.calls |->
                         IF Returned(k) = NaN THEN NegInf ELSE Returned(k)])

C13_Witness ==
    /\ ll # None
    /\ ll.pc = "returned"
    /\ ll.num_experiments = 2
    /\ Len(ll.list_of_data_segment_lengths) = 2
    /\ Len(ll.calls) = 4
    /\ Returned(2) = NaN
    /\ ll.loglike = NegInf
    /\ ll.calls[3].residuals # ll.calls[1].residuals

(***************************************************************************)
(* Properties of getDefaultErrorVariances.                                 *)
(***************************************************************************)
QuantityBlock(i) ==
    BlockEntries(dv.calibrationData, Sum(SubSeq(dv.edpLengthsList, 1, i - 1)), dv.edpLengthsList[i])

\* the value the branch computes for quantity i
ComputedVariance(i) ==
    IF Len(dv.calibrationData) >= 2 THEN NanVar(QuantityBlock(i))
    ELSE LET v == MaxAbsolute(QuantityBlock(i))
         IN  Times(Times(FivePercent, v), Times(FivePercent, v))

\* C14: there is one default error variance per response quantity; it is the
\* variance of the block (two or more experiments) or (0.05 max|data|)^2
\* (one experiment) when that value is nonzero and 1e-12 whenever it is 0,
\* so every entry is strictly positive.
C14_DefaultVariancePositive ==
    (dv # None /\ dv.pc = "returned") =>
       /\ Len(dv.defaultErrorVariances) = Len(dv.edpLengthsList)
       /\ \A i \in DOMAIN dv.edpLengthsList :
             /\ dv.defaultErrorVariances[i] =
                   IF ComputedVariance(i) # Zero THEN ComputedVariance(i)
                   ELSE DefaultVariance
             /\ dv.defaultErrorVariances[i].m > 0

(***************************************************************************)
(* Properties of make_distributions.                                       *)
(***************************************************************************)
RecognizedFamilies == {"Uniform", "Normal", "Half-Normal", "Truncated-Normal", "InvGamma", "Beta", "Lognormal", "Gumbel", "Weibull", "Exponential", "Truncated exponential", "Gamma", "Chisquare", "Discrete"}

\* the classes a family may be built as
ClassesOf(family) ==
    CASE family = "Uniform" -> {"Uniform"}
      [] family = "Normal" -> {"Normal"}
      [] family = "Half-Normal" -> {"Halfnormal"}
      [] family = "Truncated-Normal" -> {"TrunNormal"}
      [] family = "InvGamma" -> {"InvGamma"}
      [] family = "Beta" -> {"BetaDist"}
      [] family = "Lognormal" -> {"LogNormDist"}
      [] family = "Gumbel" -> {"GumbelDist"}
      [] family = "Weibull" -> {"WeibullDist"}
      [] family = "Exponential" -> {"ExponentialDist"}
      [] family = "Truncated exponential" -> {"TruncatedExponentialDist"}
      [] family = "Gamma" -> {"GammaDist"}
      [] family = "Chisquare" -> {"ChiSquareDist"}
      [] family = "Discrete" -> {"ConstantInteger", "DiscreteDist"}
      [] OTHER -> {}

\* the rows of recognized family, in input order
RecognizedRows(variables) == SelectSeq(variables, LAMBDA row : row.distribution \in RecognizedFamilies)

\* C15: the list returned holds, in input row order, exactly one object for
\* each row of a recognized family and nothing for any other row; a single
\* row {Uniform, Par1 = 0, Par2 = 1} gives [Uniform(lower = 0, upper = 1)].
C15_OneObjectPerRecognizedRow ==
    (dist # None /\ dist.pc = "returned") =>
       LET rows == RecognizedRows(dist.variables)
           result == dist.all_distributions_list
       IN  /\ Len(result) = Len(rows)
           /\ \A k \in DOMAIN result : result[k].class \in ClassesOf(rows[k].distribution)
           /\ (/\ Len(dist.variables) = 1
               /\ dist.variables[1].distribution = "Uniform"
               /\ dist.variables[1].Par1 = IntParam(0)
               /\ dist.variables[1].Par2 = IntParam(1)) =>
                 result = <<Object("Uniform", <<<<"lower", Float(IntParam(0))>>, <<"upper", Float(IntParam(1))>>>>)>>

C15_Witness ==
    /\ dist # None
    /\ dist.pc = "returned"
    /\ Len(dist.variables) = 2
    /\ dist.variables[1].distribution = "Unknown"
    /\ dist.variables[2].distribution = "Weibull"
    /\ Len(dist.all_distributions_list) = 1
    /\ dist.all_distributions_list[1].class = "WeibullDist"

(***************************************************************************)
(* Properties of UQpyEngine.main.                                          *)
(***************************************************************************)
LocalOffUnix == uq.runtype = "runningLocal" /\ uq.platform \notin {"darwin", "linux", "linux2"}

\* C16: the driver-file path of the preprocessing command and of the
\* permission changes has '.bat' appended exactly when runType is
\* 'runningLocal' and sys.platform is none of 'darwin', 'linux', 'linux2';
\* the OS type passed to preprocessing is 'Windows' exactly then and 'Linux'
\* otherwise.
C16_BatAndOsType ==
    (uq # None /\ uq.preprocessorCommand # None) =>
       LET path == IF LocalOffUnix THEN uq.supplied \o ".bat" ELSE uq.supplied
       IN  /\ uq.preprocessorCommand.driverFile = path
           /\ \A k \in DOMAIN uq.chmod : uq.chmod[k] = path
           /\ uq.preprocessorCommand.osType = IF LocalOffUnix THEN "Windows" ELSE "Linux"
           /\ uq.runtype = "runningRemote" => uq.preprocessorCommand.osType = "Linux"

C16_Witness ==
    /\ uq # None
    /\ uq.pc = "done"
    /\ uq.runtype = "runningLocal"
    /\ uq.platform = "win32"
    /\ uq.preprocessorCommand.driverFile = "driver.bat"
    /\ uq.preprocessorCommand.osType = "Windows"
    /\ uq.chmod = <<"driver.bat", "driver.bat">>

Count(q, x) == Cardinality({k \in DOMAIN q : q[k] = x})

\* What C17 says of the two subprocesses.
PreprocessThenEngine ==
    /\ Cardinality(uq.running) <= 1
    /\ uq.pc # "raised"
    /\ uq.pc \in {"permissions", "launch", "engine", "done"} =>
          /\ Count(uq.started, "preprocessUQpy") = 1
          /\ uq.started[1] = "preprocessUQpy"
          /\ "preprocessUQpy" \notin uq.running
    /\ uq.pc \in {"start", "preprocess", "preprocessing", "permissions", "launch"} =>
          Count(uq.started, "UQpyAnalysis") = 0
    /\ uq.pc \in {"engine", "done"} =>
          Count(uq.started, "UQpyAnalysis") = IF uq.runtype = "runningLocal" THEN 1 ELSE 0

RowsOfDay(report, d) == {k \in DOMAIN report : (d - 1) * 86400 <= report[k].index /\ report[k].index <= d * 86400}

RECURSIVE SumOver(_, _, _)
SumOver(report, K, column) ==
    IF K = {} THEN 0
    ELSE LET k == CHOOSE x \in K : TRUE
         IN  report[k][column] + SumOver(report, K \ {k}, column)

\* C18: for a sorted index of maximum M > 0 the daily table has the rows
\* 1 .. ceil(M / 86400), and row d is the column-wise mean of the input rows
\* whose index lies in [(d-1) x 86400, d x 86400], both bounds included; for
\* the index range 0 .. 172800 the rows are exactly 1 and 2.
C18_DailyMeansInclusive ==
    (rt # None /\ rt.pc = "returned" /\ IndexMax(rt.crew_report) > 0) =>
       LET M == IndexMax(rt.crew_report)
           days == CHOOSE n \in 0 .. M : (n - 1) * 86400 < M /\ M <= n * 86400
       IN  /\ DOMAIN rt.daily_crew_report = 1 .. days
           /\ \A d \in 1 .. days :
                 LET K == RowsOfDay(rt.crew_report, d)
                 IN  \A column \in {"idle", "busy"} :
                        rt.daily_crew_report[d][column] = [sum |-> SumOver(rt.crew_report, K, column), count |-> Cardinality(K)]
           /\ (rt.crew_report[1].index = 0 /\ M = 172800) => DOMAIN rt.daily_crew_report = {1, 2}

C18_Witness ==
    /\ rt # None
    /\ rt.pc = "returned"
    /\ Len(rt.crew_report) = 3
    /\ rt.crew_report[1].index = 0
    /\ rt.crew_report[2].index = 86400
    /\ rt.crew_report[3].index = 172800
    /\ rt.crew_report[2].busy = 2
    /\ rt.daily_crew_report[1].busy.count = 2
    /\ rt.daily_crew_report[2].busy.count = 2
    /\ rt.daily_crew_report[2].busy.sum >= 2

SecondsPer(fn) == IF fn = "convertTimeSecondToDay" THEN 86400 ELSE 3600

\* (v - time_shift) / 86400 or / 3600 for each conversion applied in turn
RECURSIVE ConvertedAsStated(_, _)
ConvertedAsStated(value, calls) ==
    IF calls = <<>> THEN value
    ELSE LET before == ConvertedAsStated(value, SubSeq(calls, 1, Len(calls) - 1))
             call == calls[Len(calls)]
         IN  Divided(Shifted(before, call.time_shift), SecondsPer(call.fn))

\* C19: a conversion replaces every value v of the named column, in the
\* caller's table, by (v - time_shift) / 86400 (days) or
\* (v - time_shift) / 3600 (hours) and leaves the other columns, the index
\* and the number of rows unchanged; applying one twice divides twice.
C19_ConvertedValues ==
    (rt # None /\ rt.pc = "table") =>
       /\ Len(rt.data) = Len(rt.original)
       /\ \A k \in DOMAIN rt.data :
             /\ rt.data[k].index = rt.original[k].index
             /\ rt.data[k].crew = rt.original[k].crew
             /\ rt.data[k].time = ConvertedAsStated(rt.original[k].time, rt.calls)

(***************************************************************************)
(* Properties of the SCWB rebuild.                                         *)
(***************************************************************************)
\* the connection of (story, no) holds the members now in the sets
BuiltFromCurrent(connection, story, no, beams, columns) ==
    /\ connection.bottom_column = Ref(story, no, columns)
    /\ story # NumStory - 1 => connection.top_column = Ref(story + 1, no, columns)
    /\ connection.left_beam = Ref(story, IF no = 0 THEN 0 ELSE no - 1, beams)

\* C20: after a column upscale of the SCWB loop of the optimal design with
\* selected story target_story, the connections of story target_story and,
\* when target_story >= 1, of story target_story - 1 are rebuilt from the
\* current columns and beams before the loop condition is tested again.
C20_NeighbourStoriesRebuilt ==
    [][(/\ pc = "connection_revise"
        /\ cursor.stage = "SCWB"
        /\ building_1'.member_size # building_1.member_size) =>
          \A s \in {scwb'.target_story - 1, scwb'.target_story} \cap Stories :
             \A c \in ColumnNos :
                BuiltFromCurrent(connection_set'[s][c], s, c, beam_set', column_set')]_vars

(***************************************************************************)
(* Termination and frame properties of seismic_design.                     *)
(***************************************************************************)
\* C21: each SCWB revision loop, of the optimal design and of
\* constructability pass 1, terminates for every target connection.  The
\* loop condition reads the SCWB flag of the connection held at the target
\* position, and a connection's flag is fixed when it is built; so every
\* pass that upscales a column of the target's own story leaves at the
\* target position a connection built on the revised column of that story.
C21_SCWBPassRebuildsTarget ==
    [][/\ (/\ pc = "connection_revise"
           /\ cursor.stage = "SCWB"
           /\ building_1'.member_size # building_1.member_size
           /\ scwb'.target_story = scwb'.target_story_index) =>
             connection_set'[scwb'.target_story_index][scwb'.target_connection_no].bottom_column
                = Ref(scwb'.target_story_index, scwb'.target_connection_no, column_set')
       /\ (/\ pc = "construction_revise"
           /\ cursor.stage = "SCWB"
           /\ building_2'.member_size # building_2.member_size
           /\ scwb'.target_story = scwb'.target_story_index) =>
             construction_connection_set'[scwb'.target_story_index][scwb'.target_connection_no].bottom_column
                = Ref(scwb'.target_story_index, scwb'.target_connection_no,
                      construction_column_set')]_vars

\* C22: in constructability pass 1 every Beam of construction_beam_set[s]
\* is built from building_2's beam size of story s, at the first
\* construction and at every rebuild after building_2.upscale_beam(s), and
\* so are the beams held by the construction connections.
C22_ConstructionBeamsFromBuilding2 ==
    (pc = "construction_revise") =>
       \A s \in Stories :
          /\ \A b \in Bays :
                construction_beam_set[s][b].size = building_2.member_size["beam"][s]
          /\ \A c \in ColumnNos :
                construction_connection_set[s][c].left_beam.obj.size
                   = building_2.member_size["beam"][s]

\* C23: at persistence every Connection of construction_connection_set
\* holds, as bottom column and as top column if it has one, the Column now
\* stored at that place of construction_column_set, which was built from
\* building_3.member_size and the elastic demands of building_3.
C23_ConstructionConnectionsOfBuilding3 ==
    (pc = "done") =>
       \A s \in Stories, c \in ColumnNos :
          LET connection == files.construction_connection_set[s][c]
              column == files.construction_column_set[s][c]
          IN  /\ column.size = building_3.member_size[ColumnType(c)][s]
              /\ column.demand = elastic_demand[3]
              /\ connection.bottom_column = Ref(s, c, files.construction_column_set)
              /\ s # NumStory - 1 =>
                    connection.top_column = Ref(s + 1, c, files.construction_column_set)

\* C24: from the end of the optimal connection revision until persistence
\* no step changes building_1.member_size or an entry of beam_set,
\* column_set or connection_set.
C24_OptimalGenerationFrozen ==
    [][(\/ pc \in {"construction_revise", "store"}
        \/ pc = "connection_revise" /\ cursor.k > Len(not_feasible.connection)) =>
          /\ building_1'.member_size = building_1.member_size
          /\ beam_set' = beam_set
          /\ column_set' = column_set
          /\ connection_set' = connection_set]_vars

\* C25: at persistence every Column and every Beam of the optimal sets
\* carries the demand of the last elastic analysis run on building_1.
C25_OptimalMembersFromLastAnalysis ==
    (pc = "done") =>
       \A s \in Stories :
          /\ \A c \in ColumnNos : files.optimal_column_set[s][c].demand = elastic_demand[1]
          /\ \A b \in Bays : files.optimal_beam_set[s][b].demand = elastic_demand[1]

\* The program is inside one of the two "geometry limits" loops.
InGeometryLimitsLoop ==
    /\ pc \in {"connection_revise", "construction_revise"}
    /\ cursor.stage = "geometry limits"

\* C26: when the revision of a recorded connection starts with
\* is_feasible['geometry limits'] false, no step changes anything any more
\* (no upscale, no analysis, no rebuild, no later phase) and no result file
\* has been or is ever written.
C26_GeometryLimitsLoopNeverEnds ==
    /\ [](InGeometryLimitsLoop => files = None)
    /\ [][InGeometryLimitsLoop => UNCHANGED vars]_vars

\* A second recorded connection fails the geometry limits after the first
\* one was revised.
C26_Witness ==
    /\ InGeometryLimitsLoop
    /\ cursor.k = 2
    /\ nAnalysis > 1

\* The calls on one building since its member sizes last changed keep the
\* order analysis, then read.
InProtocol(log) ==
    \A i \in DOMAIN log :
       /\ log[i] = "read_modal_period" =>
             i > 1 /\ log[i - 1] = "ElasticAnalysis for_period_only"
       /\ log[i] = "read_story_drift" =>
             /\ i > 2
             /\ log[i - 1] \in {"ElasticAnalysis", "ElasticAnalysis for_drift_only"}
             /\ log[i - 2] = "compute_seismic_force"
       /\ log[i] = "ElasticOutput" =>
             \E j \in 1 .. i - 1 :
                /\ log[j] = "ElasticAnalysis"
                /\ \A k \in j + 1 .. i - 1 : log[k] = "read_story_drift"

\* C27: on each of building_1, building_2 and building_3 every
\* read_modal_period directly follows a period-only analysis, every
\* read_story_drift directly follows a full or drift-only analysis run right
\* after compute_seismic_force, and every ElasticOutput follows a full
\* analysis, all of them made after the last change of that building's
\* member sizes.
C27_ReadsFollowTheirAnalysis ==
    \A b \in 1 .. 3 : InProtocol(analysis_log[b])

\* All three buildings were analysed, building_1 again after an upscale.
C27_Witness ==
    /\ pc = "done"
    /\ \A b \in 1 .. 3 : analysis_log[b] = AnalysisWithDemand
    /\ building_1.member_size # last_member
    /\ building_2.member_size # building_1.member_size

\* C28: the drift loop terminates: no pass through its body ends with
\* building_1 as it was when the pass began and the loop condition still
\* true (the analysis is deterministic, so such a pass repeats for ever).
C28_DriftIterationMakesProgress ==
    [][(pc = "drift_loop" /\ iteration' = iteration + 1) =>
          \/ building_1' # building_1
          \/ ~DriftWithinLimit(building_1')]_vars

\* C29: evaluate_log_likelihood leaves the caller's prediction array with
\* the values it was passed with (ll.passed), so that a second call with
\* the same array returns the same value.
C29_PredictionLeftUnchanged ==
    (ll.pc # "call") =>
       \A c \in DOMAIN ll.passed[1] :
          ll.prediction[1][c].n = ll.passed[1][c] * ll.prediction[1][c].d

\* The beams a joint frames into: bay c-1 on its left and bay c on its
\* right, the only bay of an exterior joint as its left beam.
FramesNeighbourBays(connection, story, c) ==
    IF c = 0 THEN connection.left_beam.story = story /\ connection.left_beam.no = 0
    ELSE IF c = NumXBay
    THEN connection.left_beam.story = story /\ connection.left_beam.no = NumXBay - 1
    ELSE /\ connection.left_beam.story = story /\ connection.left_beam.no = c - 1
         /\ connection.right_beam.story = story /\ connection.right_beam.no = c

\* C30: on every story, the roof included, every Connection built has the
\* beam of bay c-1 as left beam and the beam of bay c as right beam at an
\* interior joint c, and the beam of the only adjacent bay at an exterior
\* joint.
C30_JointsFrameNeighbourBays ==
    /\ connection_set # None =>
          \A s \in Stories, c \in ColumnNos : FramesNeighbourBays(connection_set[s][c], s, c)
    /\ construction_connection_set # None =>
          \A s \in Stories, c \in ColumnNos :
             FramesNeighbourBays(construction_connection_set[s][c], s, c)

=============================================================================
